---- MODULE Spec2Model ----
(***************************************************************************)
(* Last of the Weave: the simulation core (player character, enemies and   *)
(* their factories, abilities, the wave/spawn director and the game loop). *)
(*                                                                         *)
(* JavaScript numbers are modelled in fixed point:                         *)
(*   health, damage           hundredths of a point                        *)
(*   positions, sizes, ranges hundredths of a pixel                        *)
(*   velocities, directions   thousandths (a unit vector has length 1000)  *)
(*   times                    milliseconds                                 *)
(*   factors and rates        percent                                      *)
(***************************************************************************)
EXTENDS Integers, Sequences, FiniteSets, TLC

VARIABLES
    player,     \* the Character instance (game.player)
    enemies,    \* game.enemies: sequence of Enemy instances
    game,       \* the Game instance's own fields
    keys,       \* game.keys: the movement keys currently held
    now,        \* performance.now(), in ms
    emitted,    \* eventEmitter: number of events emitted, per event name
    globals,    \* what the page's scripts define: ENEMY_XP_VALUE, checkCollision,
                \* and window.eventEmitter in the runs of the emitter alone
    last,       \* the last operation: its name, argument and return value
    prev        \* player and enemies as they were before the last operation

vars == <<player, enemies, game, keys, now, emitted, globals, last, prev>>

----------------------------------------------------------------------------
(* Program constants (src/src/js/utils/constants.js)                       *)

PLAYER_SPEED == 5
PLAYER_SIZE == 32
PLAYER_BASE_HEALTH == 100
PLAYER_BASE_DAMAGE == 10
PLAYER_BASE_ATTACK_SPEED == 1
PLAYER_BASE_ATTACK_RANGE == 200
PLAYER_BASE_PICKUP_RANGE == 100
PLAYER_XP_TO_LEVEL == 100
\* multiplier
PLAYER_DASH_SPEED == 15
\* 0.2 s and 1.5 s, in ms
PLAYER_DASH_DURATION == 200
PLAYER_DASH_COOLDOWN == 1500
\* 0.8 and 0.05, in percent
PLAYER_MOMENTUM_FACTOR == 80
PLAYER_FRICTION == 5
ENEMY_BASE_HEALTH == 50
ENEMY_BASE_DAMAGE == 5
ENEMY_BASE_SPEED == 2
ENEMY_SIZE == 28
ENEMY_SPAWN_RATE == 1
\* 0.1 each, in percent
ENEMY_SPAWN_INCREASE_RATE == 10
ENEMY_HEALTH_INCREASE_RATE == 10
ENEMY_DAMAGE_INCREASE_RATE == 10
\* seconds
WAVE_DURATION == 30

\* window.innerWidth and window.innerHeight of the page (a 200 x 200 px window)
GAME_WIDTH == 20000
GAME_HEIGHT == 20000

----------------------------------------------------------------------------
(* Bounds of the model                                                     *)

\* wave numbers the factories are asked for
MaxWave == 20
\* animation frames per run of the game loop
MaxFrames == 5
\* ability level-ups per run of the game loop
MaxLevelUps == 2
\* operations per run of the entity harness
MaxSteps == 3
\* operations per run of the movement harness
MaxMoves == 4
\* calls of updateWave per run of the wave harness
MaxWaveUpdates == 5

Waves == 1..MaxWave

\* Math.random() results, in percent: one value in each interval the factories
\* compare against (0.4, 0.5, 0.7, 0.8)
Rands == {10, 45, 60, 75, 90}

----------------------------------------------------------------------------
(* Arithmetic helpers                                                      *)

Abs(n) == IF n < 0 THEN -n ELSE n

Min(a, b) == IF a < b THEN a ELSE b

Max(a, b) == IF a > b THEN a ELSE b

\* v * p / 100, truncated toward zero as the fixed-point image of v * (p/100)
Pct(v, p) == IF v * p >= 0 THEN (v * p) \div 100 ELSE -((-(v * p)) \div 100)

\* truncating division for signed numerators
Quot(a, b) == IF a >= 0 THEN a \div b ELSE -((-a) \div b)

RECURSIVE SqrtSearch(_, _, _)
SqrtSearch(n, lo, hi) ==
    IF lo >= hi THEN lo
    ELSE LET mid == (lo + hi + 1) \div 2
         IN  IF mid * mid <= n THEN SqrtSearch(n, mid, hi)
             ELSE SqrtSearch(n, lo, mid - 1)

\* floor(Math.sqrt(n)) for 0 <= n < 2^31
ISqrt(n) == SqrtSearch(n, 0, 46340)

----------------------------------------------------------------------------
(* Events (eventEmitter.emit is synchronous: the handlers run inside emit)  *)

EventNames ==
    {"player:damage", "player:death", "player:levelUp", "player:experienceGain",
     "player:dashStart", "player:dashEnd", "player:attack", "player:abilityAdded",
     "enemy:damage", "enemy:death", "enemy:attack", "wave:start",
     "ability:used", "ability:levelUp", "area:created", "passive:applied",
     "projectiles:created",
     "game:timeUpdate"}

NoEvents == [e \in EventNames |-> 0]

\* A world is the part of the state an operation reads and writes:
\* [player, enemies, game, emitted]
Emit(w, ev) == [w EXCEPT !.emitted[ev] = @ + 1]

----------------------------------------------------------------------------
(* Enemy (src/src/js/enemies/enemy.js)                                     *)

EnemyTypes == {"basic", "fast", "tank", "boss"}

getDefaultBehavior(type) ==
    CASE type = "basic" -> "seek"
      [] type = "fast" -> "intercept"
      [] type = "tank" -> "approach"
      [] type = "boss" -> "complex"
      [] OTHER -> "seek"

\* new Enemy(type, wave, position).  factory, deathEvents and the death*
\* fields are history: the entry point that built the enemy, the number of
\* enemy:death events it emitted, and its health and position when die() first ran.
Enemy(type, wave, px, py) ==
    LET healthMultiplier == 100 + (wave - 1) * ENEMY_HEALTH_INCREASE_RATE
        damageMultiplier == 100 + (wave - 1) * ENEMY_DAMAGE_INCREASE_RATE
    IN  [ type |-> type,
          wave |-> wave,
          health |-> ENEMY_BASE_HEALTH * healthMultiplier,
          maxHealth |-> ENEMY_BASE_HEALTH * healthMultiplier,
          damage |-> ENEMY_BASE_DAMAGE * damageMultiplier,
          speed |-> ENEMY_BASE_SPEED * 100,
          size |-> ENEMY_SIZE * 100,
          x |-> px,
          y |-> py,
          velocityX |-> 0,
          velocityY |-> 0,
          acceleration |-> 500,
          maxSpeed |-> ENEMY_BASE_SPEED * 100,
          pathUpdateTime |-> 0,
          behavior |-> getDefaultBehavior(type),
          hasTarget |-> FALSE,
          targetX |-> 0,
          targetY |-> 0,
          isAlive |-> TRUE,
          xpValue |-> 10 + (wave - 1) * 2,
          factory |-> "new",
          deathEvents |-> 0,
          deathHealth |-> 0,
          deathX |-> 0,
          deathY |-> 0,
          attacksWhileDead |-> 0 ]

----------------------------------------------------------------------------
(* EnemyFactory of src/src/js/enemies/enemyFactory.js: createEnemy(wave, x, y) *)

\* What a call gives back: the value it returns, or the exception it throws
Returned(v) == [threw |-> FALSE, value |-> v]

Thrown(v) == [threw |-> TRUE, value |-> v]

\* createBossEnemy(wave, position).  ENEMY_XP_VALUE is declared by no file under
\* src/: where it is undeclared (g.declared false) the read at line 48 throws a
\* ReferenceError and the enemy built so far is dropped; where another script
\* declares it, g.ENEMY_XP_VALUE is its value.
createBossEnemy(wave, px, py, g) ==
    LET enemy == Enemy("boss", wave, px, py)
        bossMultiplier == 500
        scaled == [enemy EXCEPT
                     !.health = Pct(@, bossMultiplier),
                     !.maxHealth = Pct(@, bossMultiplier),
                     !.damage = Pct(@, 150),
                     !.size = Pct(@, 200),
                     !.speed = Pct(@, 70)]
    IN  IF ~g.declared THEN Thrown(scaled)
        ELSE Returned([scaled EXCEPT
                         !.xpValue = g.ENEMY_XP_VALUE * 10,
                         !.behavior = "weights",
                         !.factory = "createEnemy"])

\* the type createRegularEnemy picks for Math.random() = rand (percent)
RegularType(wave, rand) ==
    IF wave < 3 THEN (IF rand < 80 THEN "basic" ELSE "fast")
    ELSE IF wave < 7
         THEN (IF rand < 50 THEN "basic" ELSE IF rand < 80 THEN "fast" ELSE "tank")
         ELSE (IF rand < 40 THEN "basic" ELSE IF rand < 70 THEN "fast" ELSE "tank")

createRegularEnemy(wave, px, py, rand) ==
    LET enemyType == RegularType(wave, rand)
        enemy == [Enemy(enemyType, wave, px, py) EXCEPT !.factory = "createEnemy"]
    IN  CASE enemyType = "fast" ->
                [enemy EXCEPT !.speed = Pct(@, 150), !.health = Pct(@, 70),
                              !.damage = Pct(@, 80), !.size = Pct(@, 80)]
          [] enemyType = "tank" ->
                [enemy EXCEPT !.speed = Pct(@, 70), !.health = Pct(@, 200),
                              !.damage = Pct(@, 120), !.size = Pct(@, 130)]
          [] OTHER -> enemy

isBossWave(wave) == wave % 10 = 0 /\ wave > 0

createEnemy(wave, px, py, rand, g) ==
    IF isBossWave(wave) THEN createBossEnemy(wave, px, py, g)
    ELSE Returned(createRegularEnemy(wave, px, py, rand))

----------------------------------------------------------------------------
(* EnemyFactory of src/src/js/enemies/enemy.js: createEnemy(type, wave, position) *)
(* and createRandomEnemy(wave)                                             *)

createEnemyOfType(type, wave, px, py) ==
    LET enemy == [Enemy(type, wave, px, py) EXCEPT !.factory = "createRandomEnemy"]
    IN  CASE type = "fast" ->
                [enemy EXCEPT !.health = Pct(@, 70), !.maxHealth = Pct(@, 70),
                              !.damage = Pct(@, 80), !.speed = Pct(@, 150),
                              !.maxSpeed = Pct(@, 150), !.size = Pct(@, 80),
                              !.acceleration = Pct(@, 150)]
          [] type = "tank" ->
                [enemy EXCEPT !.health = @ * 2, !.maxHealth = @ * 2,
                              !.damage = Pct(@, 70), !.speed = Pct(@, 70),
                              !.maxSpeed = Pct(@, 70), !.size = Pct(@, 130),
                              !.acceleration = Pct(@, 70)]
          [] type = "boss" ->
                [enemy EXCEPT !.health = @ * 5, !.maxHealth = @ * 5,
                              !.damage = @ * 2, !.speed = Pct(@, 50),
                              !.maxSpeed = Pct(@, 50), !.size = @ * 2,
                              !.xpValue = @ * 5, !.acceleration = Pct(@, 50)]
          [] OTHER -> enemy

\* the types unlocked at a wave, in the order createRandomEnemy pushes them
UnlockedTypes(wave) ==
    <<"basic">> \o (IF wave >= 3 THEN <<"fast">> ELSE <<>>)
               \o (IF wave >= 5 THEN <<"tank">> ELSE <<>>)

\* createRandomEnemy(wave) for Math.random() = rand (percent)
createRandomEnemy(wave, px, py, rand) ==
    LET types == UnlockedTypes(wave)
    IN  IF wave >= 10 /\ wave % 5 = 0 THEN createEnemyOfType("boss", wave, px, py)
        ELSE createEnemyOfType(types[((rand * Len(types)) \div 100) + 1], wave, px, py)


----------------------------------------------------------------------------
(* Character (src/unnamed/part_005) and CharacterFactory                   *)
(* (src/src/js/characters/characterFactory.js)                             *)

CharacterTypes == {"warrior", "mage", "ranger"}

\* new Character(type, stats).  The cosmetic fields (animation, trail, hit and
\* dash effects) are left out.  deathEvents and the death* fields are history.
Character(type, stats) ==
    [ type |-> type,
      level |-> 1,
      experience |-> 0,
      experienceToNextLevel |-> PLAYER_XP_TO_LEVEL,
      health |-> stats.health,
      maxHealth |-> stats.maxHealth,
      damage |-> stats.damage,
      attackSpeed |-> stats.attackSpeed,
      attackRange |-> stats.attackRange,
      speed |-> stats.speed,
      size |-> stats.size,
      acceleration |-> 800,
      deceleration |-> 1200,
      x |-> GAME_WIDTH \div 2,
      y |-> GAME_HEIGHT \div 2,
      velocityX |-> 0,
      velocityY |-> 0,
      targetVelocityX |-> 0,
      targetVelocityY |-> 0,
      maxSpeed |-> stats.speed,
      momentumX |-> 0,
      momentumY |-> 0,
      isDashing |-> FALSE,
      dashDuration |-> 0,
      dashCooldown |-> 0,
      dashDirectionX |-> 0,
      dashDirectionY |-> 0,
      lastAttackTime |-> 0,
      abilities |-> <<>>,
      passives |-> <<>>,
      isAlive |-> TRUE,
      directionX |-> 0,
      directionY |-> 1000,
      isMoving |-> FALSE,
      attacksWhileDead |-> 0,
      deathEvents |-> 0,
      deathHealth |-> 0,
      deathX |-> 0,
      deathY |-> 0 ]

\* CharacterFactory.createCharacter(type): an unknown type falls back to warrior
createCharacter(type) ==
    LET t == IF type \in CharacterTypes THEN type ELSE "warrior"
        stats ==
            CASE t = "warrior" ->
                    [ health |-> PLAYER_BASE_HEALTH * 130,
                      maxHealth |-> PLAYER_BASE_HEALTH * 130,
                      damage |-> PLAYER_BASE_DAMAGE * 120,
                      attackSpeed |-> PLAYER_BASE_ATTACK_SPEED * 80,
                      attackRange |-> PLAYER_BASE_ATTACK_RANGE * 70,
                      speed |-> PLAYER_SPEED * 90,
                      size |-> PLAYER_SIZE * 110 ]
              [] t = "mage" ->
                    [ health |-> PLAYER_BASE_HEALTH * 80,
                      maxHealth |-> PLAYER_BASE_HEALTH * 80,
                      damage |-> PLAYER_BASE_DAMAGE * 150,
                      attackSpeed |-> PLAYER_BASE_ATTACK_SPEED * 70,
                      attackRange |-> PLAYER_BASE_ATTACK_RANGE * 150,
                      speed |-> PLAYER_SPEED * 100,
                      size |-> PLAYER_SIZE * 90 ]
              [] OTHER ->
                    [ health |-> PLAYER_BASE_HEALTH * 90,
                      maxHealth |-> PLAYER_BASE_HEALTH * 90,
                      damage |-> PLAYER_BASE_DAMAGE * 90,
                      attackSpeed |-> PLAYER_BASE_ATTACK_SPEED * 150,
                      attackRange |-> PLAYER_BASE_ATTACK_RANGE * 120,
                      speed |-> PLAYER_SPEED * 120,
                      size |-> PLAYER_SIZE * 95 ]
    IN  Character(t, stats)

----------------------------------------------------------------------------
(* Event handlers (Game.init of src/src/js/game.js, UI.init of              *)
(* characterFactory.js).  They are subscribed once a Game was constructed. *)

\* UI handler of player:levelUp: showUpgradePanel pauses the game and opens the panel
showUpgradePanel(w) ==
    [w EXCEPT !.game.isPaused = TRUE, !.game.panelsShown = @ + 1]

\* emit('player:levelUp'): Game's handler, then the UI's
OnPlayerLevelUp(w) ==
    IF ~w.game.present THEN w
    ELSE showUpgradePanel([w EXCEPT !.game.levelReached = w.player.level])

\* Character.levelUp()
CharLevelUp(w) ==
    LET p == w.player
        level == p.level + 1
        p1 == [p EXCEPT
                 !.level = level,
                 !.experience = @ - p.experienceToNextLevel,
                 !.experienceToNextLevel = (PLAYER_XP_TO_LEVEL * (100 + level * 50)) \div 100,
                 !.health = p.maxHealth]
    IN  OnPlayerLevelUp(Emit([w EXCEPT !.player = p1], "player:levelUp"))

\* Character.gainExperience(amount)
CharGainExperience(w, amount) ==
    LET w1 == Emit([w EXCEPT !.player.experience = @ + amount], "player:experienceGain")
    IN  IF w1.player.experience >= w1.player.experienceToNextLevel
        THEN CharLevelUp(w1)
        ELSE w1

\* Character.die()
CharDie(w) ==
    LET p == w.player
        p1 == [p EXCEPT
                 !.isAlive = FALSE,
                 !.deathEvents = @ + 1,
                 !.deathHealth = IF p.isAlive THEN p.health ELSE @,
                 !.deathX = IF p.isAlive THEN p.x ELSE @,
                 !.deathY = IF p.isAlive THEN p.y ELSE @]
    IN  Emit([w EXCEPT !.player = p1], "player:death")

\* Character.takeDamage(amount)
CharTakeDamage(w, amount) ==
    LET w1 == Emit([w EXCEPT !.player.health = @ - amount], "player:damage")
    IN  IF w1.player.health <= 0 THEN CharDie(w1) ELSE w1

\* the handler without the test of the player's isAlive
OnEnemyDeathAlways(w, xpValue) ==
    IF ~w.game.present THEN w
    ELSE CharGainExperience([w EXCEPT !.game.enemiesDefeated = @ + 1], xpValue)

\* emit('enemy:death', {xpValue}): Game's handler
OnEnemyDeath(w, xpValue) ==
    IF ~w.game.present THEN w
    ELSE LET w1 == [w EXCEPT !.game.enemiesDefeated = @ + 1]
         IN  IF w1.player.isAlive THEN CharGainExperience(w1, xpValue) ELSE w1

\* die() without the assignment to isAlive: the event alone
EnemyDieStaysAlive(w, i) ==
    OnEnemyDeath(Emit([w EXCEPT !.enemies[i].deathEvents = @ + 1], "enemy:death"),
                 w.enemies[i].xpValue)

\* Enemy.die() of enemies[i]
EnemyDie(w, i) ==
    LET e == w.enemies[i]
        e1 == [e EXCEPT
                 !.isAlive = FALSE,
                 !.deathEvents = @ + 1,
                 !.deathHealth = IF e.isAlive THEN e.health ELSE @,
                 !.deathX = IF e.isAlive THEN e.x ELSE @,
                 !.deathY = IF e.isAlive THEN e.y ELSE @]
    IN  OnEnemyDeath(Emit([w EXCEPT !.enemies[i] = e1], "enemy:death"), e.xpValue)

\* Enemy.takeDamage(amount) of enemies[i]
EnemyTakeDamage(w, i, amount) ==
    LET w1 == Emit([w EXCEPT !.enemies[i].health = @ - amount], "enemy:damage")
    IN  IF w1.enemies[i].health <= 0 THEN EnemyDie(w1, i) ELSE w1

\* Enemy.attack(target) of enemies[i]: the target is the player
EnemyAttack(w, i) ==
    LET e == w.enemies[i]
        w1 == CharTakeDamage(w, e.damage)
        w2 == [w1 EXCEPT !.enemies[i].attacksWhileDead =
                             IF e.isAlive THEN @ ELSE @ + 1]
    IN  Emit(w2, "enemy:attack")


----------------------------------------------------------------------------
(* Movement and dash of the Character (src/unnamed/part_005)               *)

\* distance(a, b) of helpers for the offset (dx, dy); large offsets are
\* measured in coarser units so that the squares stay within 32 bits
Distance(dx, dy) ==
    LET m == Max(Abs(dx), Abs(dy))
        unit == IF m < 30000 THEN 1 ELSE IF m < 300000 THEN 10
                ELSE IF m < 3000000 THEN 100 ELSE 100000
    IN  unit * ISqrt(Quot(dx, unit) * Quot(dx, unit) + Quot(dy, unit) * Quot(dy, unit))

\* Character.setMovement(x, y) with x, y in {-1, 0, 1}: the diagonal is normalised
setMovement(p, x, y) ==
    IF x # 0 /\ y # 0
    THEN [p EXCEPT !.targetVelocityX = x * 707, !.targetVelocityY = y * 707]
    ELSE [p EXCEPT !.targetVelocityX = x * 1000, !.targetVelocityY = y * 1000]

\* the state dash() leaves when it starts a dash in direction (dx, dy)
StartDash(w, dx, dy) ==
    [ w |-> Emit([w EXCEPT !.player.dashDirectionX = dx,
                           !.player.dashDirectionY = dy,
                           !.player.isDashing = TRUE,
                           !.player.dashDuration = PLAYER_DASH_DURATION,
                           !.player.dashCooldown = PLAYER_DASH_COOLDOWN,
                           !.player.maxSpeed = w.player.speed * PLAYER_DASH_SPEED],
                 "player:dashStart"),
      result |-> TRUE ]

\* dash() without its first guard: a dash that starts whatever the cooldown
\* and the dash in progress
dashUnguarded(w) ==
    LET p == w.player
        length == ISqrt(p.targetVelocityX * p.targetVelocityX
                        + p.targetVelocityY * p.targetVelocityY)
    IN  IF length = 0 THEN StartDash(w, p.directionX, p.directionY)
        ELSE StartDash(w, Quot(p.targetVelocityX * 1000, length),
                          Quot(p.targetVelocityY * 1000, length))

\* Character.dash(): the world it leaves and the value it returns
dash(w) ==
    LET p == w.player
        length == ISqrt(p.targetVelocityX * p.targetVelocityX
                        + p.targetVelocityY * p.targetVelocityY)
    IN  IF p.dashCooldown > 0 \/ p.isDashing THEN [w |-> w, result |-> FALSE]
        ELSE IF ~p.isMoving /\ p.targetVelocityX = 0 /\ p.targetVelocityY = 0
        THEN IF p.directionX = 0 /\ p.directionY = 0
             THEN [w |-> w, result |-> FALSE]
             ELSE StartDash(w, p.directionX, p.directionY)
        ELSE IF length = 0 THEN [w |-> w, result |-> FALSE]
             ELSE StartDash(w, Quot(p.targetVelocityX * 1000, length),
                               Quot(p.targetVelocityY * 1000, length))

\* updateDash that ends the dash without the residual momentum
updateDashNoMomentum(w, dt) ==
    LET p == w.player
        left == p.dashDuration - dt
    IN  IF left <= 0
        THEN Emit([w EXCEPT !.player.dashDuration = left,
                            !.player.isDashing = FALSE,
                            !.player.maxSpeed = p.speed],
                  "player:dashEnd")
        ELSE [w EXCEPT !.player.dashDuration = left]

\* Character.updateDash(deltaTime)
updateDash(w, dt) ==
    LET p == w.player
        left == p.dashDuration - dt
    IN  IF left <= 0
        THEN Emit([w EXCEPT !.player.dashDuration = left,
                            !.player.isDashing = FALSE,
                            !.player.maxSpeed = p.speed,
                            !.player.momentumX = Pct(p.dashDirectionX, PLAYER_MOMENTUM_FACTOR),
                            !.player.momentumY = Pct(p.dashDirectionY, PLAYER_MOMENTUM_FACTOR)],
                  "player:dashEnd")
        ELSE [w EXCEPT !.player.dashDuration = left]

\* worldBounds of Game.init: a square of worldSize 2000 px around the origin
worldSize == 200000

worldBounds ==
    [ minX |-> -(worldSize \div 2), minY |-> -(worldSize \div 2),
      maxX |-> worldSize \div 2, maxY |-> worldSize \div 2 ]

\* the velocity part of updateMovement: dash direction, or a step towards the
\* target velocity plus momentum, and friction on the momentum
Steer(p, dt) ==
    IF p.isDashing
    THEN [p EXCEPT !.velocityX = p.dashDirectionX, !.velocityY = p.dashDirectionY]
    ELSE LET accelRate == IF p.isMoving THEN p.acceleration ELSE p.deceleration
             f == Min((accelRate * dt) \div 100, 1000)
             targetX == p.targetVelocityX + p.momentumX
             targetY == p.targetVelocityY + p.momentumY
             mx == Pct(p.momentumX, 100 - PLAYER_FRICTION)
             my == Pct(p.momentumY, 100 - PLAYER_FRICTION)
         IN  [p EXCEPT !.velocityX = @ + Quot((targetX - @) * f, 1000),
                       !.velocityY = @ + Quot((targetY - @) * f, 1000),
                       !.momentumX = IF Abs(mx) < 10 THEN 0 ELSE mx,
                       !.momentumY = IF Abs(my) < 10 THEN 0 ELSE my]

\* the position part: apply the velocity, then isMoving and the facing direction
Advance(p, dt) ==
    LET moving == Abs(p.velocityX) > 10 \/ Abs(p.velocityY) > 10
        turning == moving /\ (Abs(p.velocityX) > 100 \/ Abs(p.velocityY) > 100)
        length == ISqrt(p.velocityX * p.velocityX + p.velocityY * p.velocityY)
    IN  [p EXCEPT !.x = @ + Quot(Quot(p.velocityX * p.maxSpeed, 1000) * dt, 1000),
                  !.y = @ + Quot(Quot(p.velocityY * p.maxSpeed, 1000) * dt, 1000),
                  !.isMoving = moving,
                  !.directionX = IF turning /\ length > 0
                                 THEN Quot(p.velocityX * 1000, length) ELSE @,
                  !.directionY = IF turning /\ length > 0
                                 THEN Quot(p.velocityY * 1000, length) ELSE @]

\* the clamp that leaves velocity and momentum as they were
ClampPositionOnly(p, b) ==
    LET radius == p.size \div 2
    IN  [p EXCEPT !.x = Max(b.minX + radius, Min(b.maxX - radius, @)),
                  !.y = Max(b.minY + radius, Min(b.maxY - radius, @))]

\* the world-bounds part: clamp per axis, zeroing velocity and momentum there
ClampToBounds(p, b) ==
    LET radius == p.size \div 2
        px == IF p.x - radius < b.minX
              THEN [p EXCEPT !.x = b.minX + radius, !.velocityX = 0, !.momentumX = 0]
              ELSE IF p.x + radius > b.maxX
              THEN [p EXCEPT !.x = b.maxX - radius, !.velocityX = 0, !.momentumX = 0]
              ELSE p
    IN  IF px.y - radius < b.minY
        THEN [px EXCEPT !.y = b.minY + radius, !.velocityY = 0, !.momentumY = 0]
        ELSE IF px.y + radius > b.maxY
        THEN [px EXCEPT !.y = b.maxY - radius, !.velocityY = 0, !.momentumY = 0]
        ELSE px

\* Character.updateMovement(deltaTime, worldBounds)
updateMovement(p, dt) == ClampToBounds(Advance(Steer(p, dt), dt), worldBounds)

----------------------------------------------------------------------------
(* StatBoostPassive and Character.addAbility                               *)
(* (src/src/js/abilities/ability.js, src/src/js/characters/character.js)   *)

StatTypes == {"maxHealth", "damage", "attackSpeed", "attackRange", "speed"}

\* AbilityFactory.createStatBoost(statType): boost per level, in percent
createStatBoost(statType) ==
    [ kind |-> "passive",
      statType |-> statType,
      boostValue |-> CASE statType = "maxHealth" -> 10
                       [] statType = "damage" -> 15
                       [] statType = "attackSpeed" -> 10
                       [] statType = "attackRange" -> 20
                       [] statType = "speed" -> 10
                       [] OTHER -> 10,
      isPercentage |-> TRUE,
      level |-> 1 ]

\* StatBoostPassive.apply(character)
PassiveApply(w, ability) ==
    LET w1 == Emit(w, "passive:applied")
        f == 100 + ability.boostValue * ability.level
        p == w1.player
        p1 == CASE ability.statType = "maxHealth" -> [p EXCEPT !.maxHealth = Pct(@, f)]
                [] ability.statType = "damage" -> [p EXCEPT !.damage = Pct(@, f)]
                [] ability.statType = "attackSpeed" -> [p EXCEPT !.attackSpeed = Pct(@, f)]
                [] ability.statType = "attackRange" -> [p EXCEPT !.attackRange = Pct(@, f)]
                [] ability.statType = "speed" -> [p EXCEPT !.speed = Pct(@, f)]
                [] OTHER -> p
    IN  [w1 EXCEPT !.player = p1]

\* Character.addAbility(ability)
addAbility(w, ability) ==
    LET w1 == IF ability.kind # "passive"
              THEN [w EXCEPT !.player.abilities = Append(@, ability)]
              ELSE PassiveApply([w EXCEPT !.player.passives = Append(@, ability)], ability)
    IN  Emit(w1, "player:abilityAdded")

----------------------------------------------------------------------------
(* Abilities (src/src/js/abilities/ability.js) and the combat part of      *)
(* Character.update (src/unnamed/part_005)                                 *)

\* AbilityFactory.createBasicArea(element): cooldown 8 s, damage 40, radius 150 px
createBasicArea ==
    [ kind |-> "area",
      level |-> 1,
      cooldown |-> 8000,
      lastUsedTime |-> 0,
      damage |-> 4000,
      radius |-> 15000,
      duration |-> 500,
      knockback |-> FALSE ]

\* AbilityFactory.createBasicProjectile(element): cooldown 3 s, damage 20,
\* speed 10 px per frame, size 10 px, one projectile, range 500 px
createBasicProjectile ==
    [ kind |-> "projectile",
      level |-> 1,
      cooldown |-> 3000,
      lastUsedTime |-> 0,
      damage |-> 2000,
      speed |-> 1000,
      size |-> 1000,
      count |-> 1,
      piercing |-> FALSE,
      range |-> 50000 ]

\* AbilityFactory.createMultiProjectile(element): cooldown 5 s, damage 15,
\* speed 8 px per frame, size 8 px, three projectiles, range 400 px
createMultiProjectile ==
    [ kind |-> "projectile",
      level |-> 1,
      cooldown |-> 5000,
      lastUsedTime |-> 0,
      damage |-> 1500,
      speed |-> 800,
      size |-> 800,
      count |-> 3,
      piercing |-> FALSE,
      range |-> 40000 ]

\* AreaAbility.levelUp() of the player's k-th ability
AreaLevelUp(w, k) ==
    LET a == w.player.abilities[k]
        a1 == [a EXCEPT !.level = @ + 1,
                        !.damage = Pct(@, 120),
                        !.radius = Pct(@, 110),
                        !.knockback = @ \/ (a.level + 1 >= 3),
                        !.duration = Pct(@, 110)]
    IN  Emit([w EXCEPT !.player.abilities[k] = a1], "ability:levelUp")

\* isReady with the cooldown taken in hundredths of a second
isReadyEarly(a, t) == t - a.lastUsedTime >= a.cooldown \div 10

\* Ability.isReady() at performance.now() = t
isReady(a, t) == t - a.lastUsedTime >= a.cooldown

\* the indices of the living enemies within radius of (x, y), in list order
\* InRadius without the enemies exactly radius away
RECURSIVE InRadiusStrict(_, _, _, _, _)
InRadiusStrict(es, i, x, y, radius) ==
    IF i > Len(es) THEN <<>>
    ELSE (IF es[i].isAlive /\ Distance(es[i].x - x, es[i].y - y) < radius
          THEN <<i>> ELSE <<>>) \o InRadiusStrict(es, i + 1, x, y, radius)

RECURSIVE InRadius(_, _, _, _, _)
InRadius(es, i, x, y, radius) ==
    IF i > Len(es) THEN <<>>
    ELSE (IF es[i].isAlive /\ Distance(es[i].x - x, es[i].y - y) <= radius
          THEN <<i>> ELSE <<>>) \o InRadius(es, i + 1, x, y, radius)

\* the knockback of AreaAbility.use on enemies[i]: radius / 2 along the
\* direction from the area's centre (getDirectionFromAngle(calculateAngle(..)))
Knockback(w, i, x, y, radius) ==
    LET e == w.enemies[i]
        dx == e.x - x
        dy == e.y - y
        d == Distance(dx, dy)
        dirX == IF d = 0 THEN 1000 ELSE Quot(dx * 1000, d)
        dirY == IF d = 0 THEN 0 ELSE Quot(dy * 1000, d)
    IN  [w EXCEPT !.enemies[i].x = @ + Quot(dirX * (radius \div 2), 1000),
                  !.enemies[i].y = @ + Quot(dirY * (radius \div 2), 1000)]

\* hitEnemies.forEach of AreaAbility.use: damage, then knockback
RECURSIVE AreaHit(_, _, _, _)
AreaHit(w, hit, n, area) ==
    IF n > Len(hit) THEN w
    ELSE LET w1 == EnemyTakeDamage(w, hit[n], area.damage)
             w2 == IF area.knockback
                   THEN Knockback(w1, hit[n], area.x, area.y, area.radius)
                   ELSE w1
         IN  AreaHit(w2, hit, n + 1, area)

\* emit('area:created'): Game's handler pushes the area on game.areas
OnAreaCreated(w, area) ==
    IF ~w.game.present THEN w ELSE [w EXCEPT !.game.areas = Append(@, area)]

\* AreaAbility.use(character, targets) of the player's k-th ability, at time t
AreaUse(w, k, t) ==
    LET a == w.player.abilities[k]
        w1 == Emit([w EXCEPT !.player.abilities[k].lastUsedTime = t], "ability:used")
        area == [ x |-> w.player.x,
                  y |-> w.player.y,
                  damage |-> Pct(a.damage, 100 + 20 * (a.level - 1)),
                  radius |-> a.radius,
                  duration |-> a.duration,
                  knockback |-> a.knockback,
                  startTime |-> t,
                  active |-> TRUE ]
        hitEnemies == InRadius(w1.enemies, 1, area.x, area.y, area.radius)
    IN  OnAreaCreated(Emit(AreaHit(w1, hitEnemies, 1, area), "area:created"), area)

\* the projectile ProjectileAbility.use builds for ability a of player p, in
\* direction (dx, dy).  distanceTraveled is in thousandths of the position's
\* unit; originX, originY and hits (the enemies it has damaged) are history.
Projectile(a, p, dx, dy) ==
    [ x |-> p.x,
      y |-> p.y,
      directionX |-> dx,
      directionY |-> dy,
      damage |-> Pct(a.damage, 100 + 20 * (a.level - 1)),
      speed |-> a.speed,
      size |-> a.size,
      piercing |-> a.piercing,
      range |-> a.range,
      distanceTraveled |-> 0,
      originX |-> p.x,
      originY |-> p.y,
      hits |-> 0 ]

\* the projectiles of one use: a single one in the facing direction, or three
\* spread by 2 pi / 3 around it (cos 2 pi / 3 = -0.5, sin 2 pi / 3 = 0.866)
Spread(a, p) ==
    IF a.count = 1 THEN <<Projectile(a, p, p.directionX, p.directionY)>>
    ELSE << Projectile(a, p, Quot(-500 * p.directionX + 866 * p.directionY, 1000),
                             Quot(-866 * p.directionX - 500 * p.directionY, 1000)),
            Projectile(a, p, p.directionX, p.directionY),
            Projectile(a, p, Quot(-500 * p.directionX - 866 * p.directionY, 1000),
                             Quot(866 * p.directionX - 500 * p.directionY, 1000)) >>

\* emit('projectiles:created'): Game's handler pushes them on game.projectiles
OnProjectilesCreated(w, projectiles) ==
    IF ~w.game.present THEN w ELSE [w EXCEPT !.game.projectiles = @ \o projectiles]

\* ProjectileAbility.use(character, targets) of the player's k-th ability, at time t
ProjectileUse(w, k, t) ==
    OnProjectilesCreated(
        Emit(Emit([w EXCEPT !.player.abilities[k].lastUsedTime = t], "ability:used"),
             "projectiles:created"),
        Spread(w.player.abilities[k], w.player))

\* the index of the nearest living enemy within attackRange (the first of
\* equally near ones), or 0
RECURSIVE Nearest(_, _, _, _, _)
Nearest(p, es, i, best, bestDist) ==
    IF i > Len(es) THEN best
    ELSE LET dist == Distance(es[i].x - p.x, es[i].y - p.y)
         IN  IF es[i].isAlive /\ dist <= p.attackRange /\ (best = 0 \/ dist < bestDist)
             THEN Nearest(p, es, i + 1, i, dist)
             ELSE Nearest(p, es, i + 1, best, bestDist)

\* Character.attack(enemy) on enemies[i]
CharAttack(w, i) ==
    LET w1 == EnemyTakeDamage(w, i, w.player.damage)
    IN  Emit([w1 EXCEPT !.player.attacksWhileDead = IF w.player.isAlive THEN @ ELSE @ + 1],
             "player:attack")

\* whether currentTime - lastAttackTime < 1000 / attackSpeed at time t
\* (attackSpeed is in hundredths of an attack per second)
attackCooling(p, t) == (t - p.lastAttackTime) * p.attackSpeed < 100000

\* the attack on enemies[i] that autoAttack has found, or none for i = 0
attackFound(w, i, t) ==
    IF i = 0 THEN w
    ELSE [CharAttack(w, i) EXCEPT !.player.lastAttackTime = t]

\* autoAttack without the test of the attack cooldown
autoAttackEager(w, t) == attackFound(w, Nearest(w.player, w.enemies, 1, 0, 0), t)

\* Character.autoAttack(enemies) at performance.now() = t
autoAttack(w, t) ==
    IF attackCooling(w.player, t) THEN w
    ELSE attackFound(w, Nearest(w.player, w.enemies, 1, 0, 0), t)

\* this.abilities.forEach of Character.update, from the k-th ability on
RECURSIVE UseAbilities(_, _, _)
UseAbilities(w, k, t) ==
    IF k > Len(w.player.abilities) THEN w
    ELSE LET a == w.player.abilities[k]
             w1 == IF ~isReady(a, t) THEN w
                   ELSE IF a.kind = "area" THEN AreaUse(w, k, t)
                   ELSE ProjectileUse(w, k, t)
         IN  UseAbilities(w1, k + 1, t)

\* Character.update(deltaTime, enemies, worldBounds) at performance.now() = t
CharUpdate(w, dt, t) ==
    IF ~w.player.isAlive THEN w
    ELSE LET w1 == [w EXCEPT !.player.dashCooldown =
                                 IF @ > 0 THEN Max(@ - dt, 0) ELSE @]
             w2 == IF w1.player.isDashing THEN updateDash(w1, dt) ELSE w1
             w3 == [w2 EXCEPT !.player = updateMovement(@, dt)]
         IN  UseAbilities(autoAttack(w3, t), 1, t)

----------------------------------------------------------------------------
(* The Game instance's fields (src/src/js/game.js, constructor)            *)

\* no Game was constructed: nothing is subscribed to the event emitter
NoGame ==
    [ present |-> FALSE,
      state |-> "menu",
      isPaused |-> FALSE,
      currentWave |-> 0,
      waveTimer |-> 0,
      enemySpawnTimer |-> 0,
      enemySpawnRate |-> ENEMY_SPAWN_RATE * 100,
      gameTime |-> 0,
      wavesCompleted |-> 0,
      enemiesDefeated |-> 0,
      levelReached |-> 1,
      panelsShown |-> 0,
      upgradesChosen |-> 0,
      projectiles |-> <<>>,
      areas |-> <<>>,
      mostHits |-> 0,
      lastFrameTime |-> 0,
      loops |-> 0,
      frames |-> 0,
      spawnExpiries |-> 0,
      bossesSpawned |-> 0 ]

World(p, es, g, em) == [player |-> p, enemies |-> es, game |-> g, emitted |-> em]

Here == World(player, enemies, game, emitted)

Snapshot == [player |-> player, enemies |-> enemies, emitted |-> emitted]

\* What a step leaves: the world, and whether it threw
Done(w) == [w |-> w, threw |-> FALSE]

Threw(w) == [w |-> w, threw |-> TRUE]

\* the program's variables take the values of world w
Shows(w) ==
    /\ player' = w.player
    /\ enemies' = w.enemies
    /\ game' = w.game
    /\ emitted' = w.emitted

\* the variables after an operation that led from the current world to w
Becomes(w, op, arg, result) ==
    /\ Shows(w)
    /\ prev' = Snapshot
    /\ last' = [op |-> op, arg |-> arg, result |-> result, steps |-> last.steps + 1]

----------------------------------------------------------------------------
(* Enemy.update (src/src/js/enemies/enemy.js).  Enemy velocities are in    *)
(* hundredths of a pixel per frame: moveTowardsTarget adds them unscaled.  *)

\* the point an intercepting enemy aims at: the player's position carried
\* forward by its velocity for distance / maxSpeed
InterceptPoint(e, p) ==
    LET dist == Distance(p.x - e.x, p.y - e.y)
        interceptTime == Quot(dist, Max(e.maxSpeed \div 10, 1))
        carryX == Quot(Quot(p.velocityX * p.maxSpeed, 1000) * interceptTime, 10)
        carryY == Quot(Quot(p.velocityY * p.maxSpeed, 1000) * interceptTime, 10)
    IN  [x |-> p.x + carryX, y |-> p.y + carryY]

\* the point a circling boss aims at: 100 px from the player, pi/8 further
\* round than the boss itself (cos pi/8 = 0.924, sin pi/8 = 0.383)
CirclePoint(e, p) ==
    LET dx == e.x - p.x
        dy == e.y - p.y
        d == Distance(dx, dy)
        cx == IF d = 0 THEN 1000 ELSE Quot(dx * 1000, d)
        cy == IF d = 0 THEN 0 ELSE Quot(dy * 1000, d)
    IN  [x |-> p.x + Quot(cx * 924 - cy * 383, 100),
         y |-> p.y + Quot(cy * 924 + cx * 383, 100)]

\* Enemy.updatePath(deltaTime) of enemy e against player p; rand is the
\* Math.random() of the approach behaviour, in percent
updatePath(e, p, rand) ==
    LET dist == Distance(p.x - e.x, p.y - e.y)
        at == [x |-> p.x, y |-> p.y]
        tp == CASE e.behavior = "seek" -> at
                [] e.behavior = "intercept" -> InterceptPoint(e, p)
                [] e.behavior = "approach" ->
                       IF dist < 20000 /\ rand < 30 THEN [x |-> e.x, y |-> e.y] ELSE at
                [] e.behavior = "complex" ->
                       IF dist > 30000 THEN InterceptPoint(e, p)
                       ELSE IF dist > 10000 THEN at
                       ELSE CirclePoint(e, p)
                [] OTHER -> at
    IN  IF ~p.isAlive THEN e
        ELSE [e EXCEPT !.hasTarget = TRUE, !.targetX = tp.x, !.targetY = tp.y]

\* Enemy.moveTowardsTarget(deltaTime)
moveTowardsTarget(e, dt) ==
    LET dx == e.targetX - e.x
        dy == e.targetY - e.y
        distToTarget == Distance(dx, dy)
        vx == e.velocityX + Quot(Quot(dx * 1000, distToTarget) * e.acceleration * dt, 1000000)
        vy == e.velocityY + Quot(Quot(dy * 1000, distToTarget) * e.acceleration * dt, 1000000)
        currentSpeed == Distance(vx, vy)
        e1 == IF distToTarget > 500
              THEN IF currentSpeed > e.maxSpeed
                   THEN [e EXCEPT !.velocityX = Quot(vx * e.maxSpeed, currentSpeed),
                                  !.velocityY = Quot(vy * e.maxSpeed, currentSpeed)]
                   ELSE [e EXCEPT !.velocityX = vx, !.velocityY = vy]
              ELSE [e EXCEPT !.velocityX = Pct(@, 90), !.velocityY = Pct(@, 90)]
    IN  IF ~e.hasTarget THEN e
        ELSE [e1 EXCEPT !.x = @ + e1.velocityX, !.y = @ + e1.velocityY]

\* obj.size: an Enemy has a size of its own; a Character keeps its size in
\* stats and has no property size, so that the read gives undefined
hasSize(obj) == "experience" \notin DOMAIN obj

\* checkCollision(obj1, obj2) of src/unnamed/part_008: circles of diameter size.
\* A sum with undefined is NaN, and no distance is less than NaN.
checkCollision(obj1, obj2) ==
    /\ hasSize(obj1)
    /\ hasSize(obj2)
    /\ Distance(obj2.x - obj1.x, obj2.y - obj1.y) < (obj1.size + obj2.size) \div 2

\* the path timer of Enemy.update: updatePath every pathUpdateInterval (0.5 s)
pathTimer(e, p, dt, rand) ==
    IF e.pathUpdateTime + dt >= 500
    THEN [updatePath(e, p, rand) EXCEPT !.pathUpdateTime = 0]
    ELSE [e EXCEPT !.pathUpdateTime = @ + dt]

\* the end of Enemy.update: the attack on a player the enemy touches
collide(w, i, g) ==
    IF g.checkCollision = "helpers" THEN Threw(w)
    ELSE IF checkCollision(w.enemies[i], w.player) THEN Done(EnemyAttack(w, i))
    ELSE Done(w)

\* Enemy.update(deltaTime, player) of enemies[i].  checkCollision of
\* src/src/js/utils/helpers.js reads entity.stats.size, and an Enemy has no
\* stats: where the page loads that definition the call throws a TypeError.
EnemyUpdate(w, i, dt, rand, g) ==
    IF ~w.enemies[i].isAlive THEN Done(w)
    ELSE IF ~w.player.isAlive
    THEN Done([w EXCEPT !.enemies[i] = pathTimer(@, w.player, dt, rand)])
    ELSE collide([w EXCEPT !.enemies[i] =
                      moveTowardsTarget(pathTimer(@, w.player, dt, rand), dt)],
                 i, g)

----------------------------------------------------------------------------
(* Game (src/src/js/game.js)                                               *)

\* Game.startWave(waveNumber).  spawnExpiries and bossesSpawned are history:
\* the spawn-timer expiries and the bosses pushed on game.enemies in this wave.
startWave(w, waveNumber) ==
    Emit([w EXCEPT !.game.currentWave = waveNumber,
                   !.game.waveTimer = WAVE_DURATION * 1000,
                   !.game.enemySpawnRate =
                       ENEMY_SPAWN_RATE * (100 + (waveNumber - 1) * ENEMY_SPAWN_INCREASE_RATE),
                   !.game.spawnExpiries = 0,
                   !.game.bossesSpawned = 0],
         "wave:start")

\* new Game() followed by startGame(characterType), at performance.now() = 0
\* for the time manager (its reset)
startGame(characterType) ==
    LET g == [NoGame EXCEPT !.present = TRUE, !.state = "playing", !.loops = 1]
    IN  startWave(World(createCharacter(characterType), <<>>, g, NoEvents), 1)

\* the offset of a spawn point from the player: camera.width / camera.scale / 2
\* + spawnDistance 100 px, the camera having the window's size and scale 1
spawnOffsetX == GAME_WIDTH \div 2 + 10000

spawnOffsetY == GAME_HEIGHT \div 2 + 10000

\* the unit vectors (cos, sin) of the spawn angles drawn in the runs
SpawnDirections == {<<1000, 0>>, <<0, -1000>>}

\* this.enemies.push(enemy) of Game.spawnEnemy, r being what createEnemy left
push(w, r) ==
    IF r.threw THEN Threw(w)
    ELSE Done([w EXCEPT !.enemies = Append(@, r.value),
                        !.game.bossesSpawned =
                            IF r.value.type = "boss" THEN @ + 1 ELSE @])

\* Game.spawnEnemy() for the spawn angle of unit vector dir
spawnEnemy(w, dir, rand, g) ==
    push(w, createEnemy(w.game.currentWave,
                        w.player.x + Quot(dir[1] * spawnOffsetX, 1000),
                        w.player.y + Quot(dir[2] * spawnOffsetY, 1000),
                        rand, g))

\* the end of the wave without the count of completed waves
endOfWaveUncounted(w) ==
    IF w.game.waveTimer <= 0
    THEN startWave([w EXCEPT !.game.waveTimer = 0], w.game.currentWave + 1)
    ELSE w

\* the rest of updateWave once the spawn is done: the end of the wave
endOfWave(w) ==
    IF w.game.waveTimer <= 0
    THEN [startWave([w EXCEPT !.game.waveTimer = 0], w.game.currentWave + 1)
            EXCEPT !.game.wavesCompleted = @ + 1]
    ELSE w

\* updateWave after spawnEnemy, if that returned: the spawn timer starts again
resetSpawnTimer(r) ==
    IF r.threw THEN r
    ELSE Done(endOfWave([r.w EXCEPT !.game.enemySpawnTimer =
                                        100000 \div r.w.game.enemySpawnRate]))

\* Game.updateWave(deltaTime)
\* updateWave that sets the spawn timer after the next wave has started
updateWaveLate(w, dt, dir, rand, g) ==
    LET w1 == endOfWave([w EXCEPT !.game.waveTimer = @ - dt, !.game.enemySpawnTimer = @ - dt])
    IN  IF w1.game.enemySpawnTimer > 0 THEN Done(w1)
        ELSE resetSpawnTimer(spawnEnemy([w1 EXCEPT !.game.spawnExpiries = @ + 1],
                                        dir, rand, g))

updateWave(w, dt, dir, rand, g) ==
    LET w1 == [w EXCEPT !.game.waveTimer = @ - dt, !.game.enemySpawnTimer = @ - dt]
    IN  IF w1.game.enemySpawnTimer > 0 THEN Done(endOfWave(w1))
        ELSE resetSpawnTimer(spawnEnemy([w1 EXCEPT !.game.spawnExpiries = @ + 1],
                                        dir, rand, g))

\* this.enemies.forEach of Game.updateEnemies, from the i-th enemy on, r being
\* what the updates before it left: an update that throws ends the loop
RECURSIVE UpdateEachEnemy(_, _, _, _, _)
UpdateEachEnemy(r, i, dt, rand, g) ==
    IF r.threw \/ i > Len(r.w.enemies) THEN r
    ELSE UpdateEachEnemy(EnemyUpdate(r.w, i, dt, rand, g), i + 1, dt, rand, g)

\* Game.updateEnemies(deltaTime).  The filter drops an enemy only if it is dead
\* and its deathTimer <= 0; no Enemy has a deathTimer, and undefined <= 0 is
\* false, so the filter keeps every enemy.
updateEnemies(w, dt, rand, g) == UpdateEachEnemy(Done(w), 1, dt, rand, g)

\* Game.updateAreas(deltaTime): the areas pushed by the area:created handler are
\* plain objects without an update method, so the call on the first one throws
updateAreas(w) == IF Len(w.game.areas) > 0 THEN Threw(w) ELSE Done(w)

\* Game.updateProjectiles(deltaTime) of game.js: the projectiles pushed by the
\* projectiles:created handler are plain objects without an update method, so
\* the call on the first one throws
updateProjectiles(w) == IF Len(w.game.projectiles) > 0 THEN Threw(w) ELSE Done(w)

\* Game.handlePlayerInput() for the keys held
handlePlayerInput(p, held) ==
    LET moveX == (IF "d" \in held THEN 1 ELSE 0) - (IF "a" \in held THEN 1 ELSE 0)
        moveY == (IF "s" \in held THEN 1 ELSE 0) - (IF "w" \in held THEN 1 ELSE 0)
    IN  setMovement(p, moveX, moveY)

\* Game.update without its last statement
gameOverCheckNever(w) == w

\* the game-over check that ends Game.update
gameOverCheck(w) ==
    IF ~w.player.isAlive /\ w.game.state # "gameOver"
    THEN [w EXCEPT !.game.state = "gameOver"]
    ELSE w

\* the player's part of Game.update: input and update of a living player
updatePlayer(w, dt, t, held) ==
    IF w.player.isAlive
    THEN CharUpdate([w EXCEPT !.player = handlePlayerInput(@, held)], dt, t)
    ELSE w

\* the statements of Game.update after updateWave, each reached only if the
\* one before it returned, r being what that one left
thenEnemies(r, dt, rand, g) == IF r.threw THEN r ELSE updateEnemies(r.w, dt, rand, g)

\* the projectile's collision test of updateProjectiles against enemy e
overlaps(p, e) == Distance(p.x - e.x, p.y - e.y) <= (p.size + e.size) \div 2

\* the move of one projectile in a frame of dt ms: speed px along its
\* direction, and speed * deltaTime added to distanceTraveled
moved(p, dt) ==
    [p EXCEPT !.x = @ + Quot(p.directionX * p.speed, 1000),
              !.y = @ + Quot(p.directionY * p.speed, 1000),
              !.distanceTraveled = @ + p.speed * dt]

\* projectile j has hit enemy i: takeDamage, and a projectile that does not
\* pierce is marked for removal
struck(w, j, i) ==
    EnemyTakeDamage([w EXCEPT !.game.projectiles[j].hits = @ + 1,
                              !.game.projectiles[j].distanceTraveled =
                                  IF w.game.projectiles[j].piercing THEN @
                                  ELSE (w.game.projectiles[j].range + 100) * 1000],
                    i, w.game.projectiles[j].damage)

\* the inner enemies.forEach of updateProjectiles for projectile j, from enemy i on
RECURSIVE HitEach(_, _, _)
HitEach(w, j, i) ==
    IF i > Len(w.enemies) THEN w
    ELSE IF w.enemies[i].isAlive /\ overlaps(w.game.projectiles[j], w.enemies[i])
    THEN HitEach(struck(w, j, i), j, i + 1)
    ELSE HitEach(w, j, i + 1)

\* the projectiles.forEach of updateProjectiles, from projectile j on
RECURSIVE MoveEach(_, _, _)
MoveEach(w, j, dt) ==
    IF j > Len(w.game.projectiles) THEN w
    ELSE MoveEach(HitEach([w EXCEPT !.game.projectiles[j] = moved(@, dt)], j, 1),
                  j + 1, dt)

\* the most enemies a projectile of ps that does not pierce has hit, at least m
RECURSIVE MostHits(_, _, _)
MostHits(ps, j, m) ==
    IF j > Len(ps) THEN m
    ELSE MostHits(ps, j + 1, IF ps[j].piercing THEN m ELSE Max(m, ps[j].hits))

\* the filter of updateProjectiles: the projectiles of ps, from j on, that
\* have not travelled their range
RECURSIVE InFlight(_, _)
InFlight(ps, j) ==
    IF j > Len(ps) THEN <<>>
    ELSE (IF ps[j].distanceTraveled < ps[j].range * 1000 THEN <<ps[j]>> ELSE <<>>)
         \o InFlight(ps, j + 1)

\* the end of updateProjectiles: the filter (mostHits is history)
landed(w) ==
    [w EXCEPT !.game.projectiles = InFlight(@, 1),
              !.game.mostHits = MostHits(w.game.projectiles, 1, @)]

\* Game.updateProjectiles(deltaTime) of the Game of part_007 and of enemy.js,
\* for a frame of dt ms
updateProjectiles07(w, dt) == landed(MoveEach(w, 1, dt))

thenProjectiles(r) == IF r.threw THEN r ELSE updateProjectiles(r.w)

\* the areas of as, from j on, that are younger than their duration at time t
RECURSIVE StillActive(_, _, _)
StillActive(as, j, t) ==
    IF j > Len(as) THEN <<>>
    ELSE (IF t - as[j].startTime >= as[j].duration THEN <<>> ELSE <<as[j]>>)
         \o StillActive(as, j + 1, t)

\* the enemies of w, from i on, take the damage of the areas of as they stand in
RECURSIVE Burn(_, _, _)
Burn(w, as, j) ==
    IF j > Len(as) THEN w
    ELSE Burn(AreaHit(w, InRadius(w.enemies, 1, as[j].x, as[j].y, as[j].radius), 1, as[j]),
              as, j + 1)

\* updateAreas07 with the areas damaging the enemies inside them every frame
updateAreasBurning(w, t) ==
    [Burn(w, w.game.areas, 1) EXCEPT !.game.areas = StillActive(@, 1, t)]

\* Game.updateAreas(deltaTime) of the Game of part_007 and of enemy.js, at
\* performance.now() = t: the areas as old as their duration are dropped
updateAreas07(w, t) == [w EXCEPT !.game.areas = StillActive(@, 1, t)]

thenAreas(r) == IF r.threw THEN r ELSE updateAreas(r.w)

thenGameOver(r) == IF r.threw THEN r ELSE Done(gameOverCheck(r.w))

\* updateWave, reached only if the enemies' updates returned
thenWave(r, dt, dir, rand, g) == IF r.threw THEN r ELSE updateWave(r.w, dt, dir, rand, g)

\* Game.update with the enemies updated before the wave timer and the spawn
updateEnemiesFirst(w, dt, t, held, dir, rand, g) ==
    thenGameOver(thenAreas(thenProjectiles(thenWave(
        updateEnemies(updatePlayer(Emit([w EXCEPT !.game.gameTime = @ + dt],
                                        "game:timeUpdate"),
                                   dt, t, held),
                      dt, rand, g),
        dt, dir, rand, g))))

\* the steps of Game.update after the player's, left out when the player's
\* update has paused the game
unlessPaused(w, dt, dir, rand, g) ==
    IF w.game.isPaused THEN Done(w)
    ELSE thenGameOver(thenAreas(thenProjectiles(thenEnemies(
             updateWave(w, dt, dir, rand, g), dt, rand, g))))

\* Game.update with a test of isPaused after the player's update
updateCutByPause(w, dt, t, held, dir, rand, g) ==
    unlessPaused(updatePlayer(Emit([w EXCEPT !.game.gameTime = @ + dt], "game:timeUpdate"),
                              dt, t, held),
                 dt, dir, rand, g)

\* Game.update(deltaTime) at performance.now() = t
update(w, dt, t, held, dir, rand, g) ==
    thenGameOver(thenAreas(thenProjectiles(thenEnemies(
        updateWave(updatePlayer(Emit([w EXCEPT !.game.gameTime = @ + dt],
                                     "game:timeUpdate"),
                                dt, t, held),
                   dt, dir, rand, g),
        dt, rand, g))))

\* the frame time of targetFPS 60, and maxDeltaTime, of the TimeManager
targetFrameTime == 16

maxDeltaTime == 100

\* TimeManager.update(timestamp): the capped time since the last frame
\* Game.pause(), Game.resume() and Game.togglePause()
pause(w) == [w EXCEPT !.game.isPaused = TRUE]

resume(w) == [w EXCEPT !.game.isPaused = FALSE]

togglePause(w) == [w EXCEPT !.game.isPaused = ~@]

\* the click on an option of the upgrade panel: addAbility, hideUpgradePanel,
\* game.resume()
chooseUpgrade(w, ability) ==
    resume([addAbility(w, ability) EXCEPT !.game.upgradesChosen = w.game.panelsShown])

\* the start button of the menu, after a game: startGame(characterType) on the
\* same Game, which asks for one more animation frame (frames counts on);
\* startGame assigns state, isPaused, the three lists, gameTime, stats, the
\* time manager and the player, and startWave(1) the wave fields:
\* enemySpawnTimer, set by the constructor, is not among them
restart(w, characterType) ==
    [startGame(characterType) EXCEPT !.game.loops = w.game.loops + 1,
                                     !.game.frames = w.game.frames,
                                     !.game.enemySpawnTimer = w.game.enemySpawnTimer]

deltaTime(g, timestamp) ==
    Min(IF g.lastFrameTime = 0 THEN targetFrameTime ELSE timestamp - g.lastFrameTime,
        maxDeltaTime)

\* requestAnimationFrame at the end of gameLoop, r being what update left
nextFrame(r) == IF r.threw THEN [r.w EXCEPT !.game.loops = @ - 1] ELSE r.w

\* Game.gameLoop(timestamp): one animation frame.  A frame that throws does not
\* reach requestAnimationFrame, and the loop it belonged to ends.
\* gameLoop without the test of state and isPaused
gameLoopAlways(w, timestamp, held, dir, rand, g) ==
    nextFrame(update([w EXCEPT !.game.lastFrameTime = timestamp, !.game.frames = @ + 1],
                     deltaTime(w.game, timestamp), timestamp, held, dir, rand, g))

gameLoop(w, timestamp, held, dir, rand, g) ==
    LET w1 == [w EXCEPT !.game.lastFrameTime = timestamp, !.game.frames = @ + 1]
    IN  IF w.game.state = "playing" /\ ~w.game.isPaused
        THEN nextFrame(update(w1, deltaTime(w.game, timestamp), timestamp,
                              held, dir, rand, g))
        ELSE w1

----------------------------------------------------------------------------
(* Entity harness: a freshly created character and a freshly constructed   *)
(* enemy, driven through their methods                                     *)

\* damage amounts (5, 60 and 200 points) and experience amounts
Damages == {500, 6000, 20000}
XpGains == {50, 100, 400}

EntityInit ==
    /\ player \in {createCharacter(t) : t \in CharacterTypes}
    /\ enemies = <<Enemy("basic", 1, 0, 0)>>
    /\ game = NoGame
    /\ keys = {}
    /\ now = 0
    /\ emitted = NoEvents
    /\ globals = [declared |-> FALSE, ENEMY_XP_VALUE |-> 0, checkCollision |-> "part_008"]
    /\ last = [op |-> "new", arg |-> 0, result |-> "none", steps |-> 0]
    /\ prev = Snapshot

PlayerTakeDamage ==
    \E amount \in Damages :
        /\ last.steps < MaxSteps
        /\ Becomes(CharTakeDamage(Here, amount), "takeDamage", amount, "none")
        /\ UNCHANGED <<keys, now, globals>>

PlayerDie ==
    /\ last.steps < MaxSteps
    /\ Becomes(CharDie(Here), "die", 0, "none")
    /\ UNCHANGED <<keys, now, globals>>

PlayerGainExperience ==
    \E amount \in XpGains :
        /\ last.steps < MaxSteps
        /\ Becomes(CharGainExperience(Here, amount), "gainExperience", amount, "none")
        /\ UNCHANGED <<keys, now, globals>>

PlayerLevelUp ==
    /\ last.steps < MaxSteps
    /\ Becomes(CharLevelUp(Here), "levelUp", 0, "none")
    /\ UNCHANGED <<keys, now, globals>>

PlayerAddPassive ==
    \E statType \in StatTypes :
        /\ last.steps < MaxSteps
        /\ Becomes(addAbility(Here, createStatBoost(statType)), "addAbility", 0, "none")
        /\ UNCHANGED <<keys, now, globals>>

EnemyTakeDamageOp ==
    \E amount \in Damages :
        /\ last.steps < MaxSteps
        /\ Len(enemies) >= 1
        /\ Becomes(EnemyTakeDamage(Here, 1, amount), "enemy.takeDamage", amount, "none")
        /\ UNCHANGED <<keys, now, globals>>

EnemyDieOp ==
    /\ last.steps < MaxSteps
    /\ Len(enemies) >= 1
    /\ Becomes(EnemyDie(Here, 1), "enemy.die", 0, "none")
    /\ UNCHANGED <<keys, now, globals>>

EntityNext ==
    \/ PlayerTakeDamage
    \/ PlayerDie
    \/ PlayerGainExperience
    \/ PlayerLevelUp
    \/ PlayerAddPassive
    \/ EnemyTakeDamageOp
    \/ EnemyDieOp

SpecEntity == EntityInit /\ [][EntityNext]_vars

----------------------------------------------------------------------------
(* Properties of the entity methods                                        *)

Entities == {player} \cup {enemies[i] : i \in 1..Len(enemies)}

\* C1: after any sequence of takeDamage, levelUp and passive applications the
\* player's health lies between 0 and maxHealth (an overkill leaves it at 0)
C1_HealthInRange ==
    /\ 0 <= player.health
    /\ player.health <= player.maxHealth

C3_DeadIsIdempotent ==
    /\ (last.op \in {"takeDamage", "die"} /\ ~prev.player.isAlive) =>
            /\ player.health = prev.player.health
            /\ emitted["player:death"] = prev.emitted["player:death"]
    /\ (last.op \in {"enemy.takeDamage", "enemy.die"} /\ ~prev.enemies[1].isAlive) =>
            /\ enemies[1].health = prev.enemies[1].health
            /\ emitted["enemy:death"] = prev.emitted["enemy:death"]
    /\ \A e \in Entities : e.deathEvents <= 1

\* experienceToNextLevel of a character of the given level
XpThreshold(level) ==
    IF level = 1 THEN PLAYER_XP_TO_LEVEL
    ELSE (PLAYER_XP_TO_LEVEL * (100 + level * 50)) \div 100

\* C6: gainExperience resolves every level-up its amount pays for: on return
\* experience is below experienceToNextLevel, and an amount covering two
\* thresholds raises the level by at least two
C6_AllLevelUpsResolved ==
    last.op = "gainExperience" =>
        /\ player.experience < player.experienceToNextLevel
        /\ (prev.player.experience + last.arg >=
                XpThreshold(prev.player.level) + XpThreshold(prev.player.level + 1))
            => player.level >= prev.player.level + 2


----------------------------------------------------------------------------
(* Factory harness: one enemy is asked of either factory, then driven      *)
(* through its methods                                                     *)

FactoryInit ==
    /\ player = createCharacter("warrior")
    /\ enemies = <<>>
    /\ game = NoGame
    /\ keys = {}
    /\ now = 0
    /\ emitted = NoEvents
    /\ globals \in {[declared |-> FALSE, ENEMY_XP_VALUE |-> 0, checkCollision |-> "part_008"],
                    [declared |-> TRUE, ENEMY_XP_VALUE |-> 10, checkCollision |-> "part_008"]}
    /\ last = [op |-> "new", arg |-> 0, result |-> "none", steps |-> 0]
    /\ prev = Snapshot

\* EnemyFactory.createEnemy(wave, 0, 0) of enemyFactory.js
FactoryCreateEnemy ==
    \E wave \in Waves, rand \in Rands :
        LET r == createEnemy(wave, 0, 0, rand, globals)
        IN  /\ last.steps < MaxSteps
            /\ enemies = <<>>
            /\ Becomes([Here EXCEPT !.enemies = IF r.threw THEN <<>> ELSE <<r.value>>],
                       "createEnemy", wave, IF r.threw THEN "thrown" ELSE "returned")
            /\ UNCHANGED <<keys, now, globals>>

\* EnemyFactory.createRandomEnemy(wave) of enemy.js
FactoryCreateRandomEnemy ==
    \E wave \in Waves, rand \in Rands :
        /\ last.steps < MaxSteps
        /\ enemies = <<>>
        /\ Becomes([Here EXCEPT !.enemies = <<createRandomEnemy(wave, 0, 0, rand)>>],
                   "createRandomEnemy", wave, "returned")
        /\ UNCHANGED <<keys, now, globals>>

FactoryNext ==
    \/ FactoryCreateEnemy
    \/ FactoryCreateRandomEnemy
    \/ EnemyTakeDamageOp
    \/ EnemyDieOp

SpecFactory == FactoryInit /\ [][FactoryNext]_vars

\* C5: an enemy built by a factory never has more health than maxHealth, at
\* creation or later
C5_HealthAtMostMax ==
    \A i \in 1..Len(enemies) : enemies[i].health <= enemies[i].maxHealth

\* C9: createEnemy(wave, x, y) and createRandomEnemy(wave) return a boss exactly
\* for the waves divisible by 10
C9_BossIffTenthWave ==
    last.op \in {"createEnemy", "createRandomEnemy"} =>
        ((last.result = "returned" /\ enemies[1].type = "boss") <=> (last.arg % 10 = 0))

\* C11: no fast enemy is built for a wave below 3 and no tank for a wave
\* below 5
C11_TypesUnlocked ==
    \A i \in 1..Len(enemies) :
        /\ enemies[i].type = "fast" => enemies[i].wave >= 3
        /\ enemies[i].type = "tank" => enemies[i].wave >= 5

----------------------------------------------------------------------------
(* Movement harness: a freshly created character driven through            *)
(* setMovement, dash and update                                            *)

\* frame times, in ms
Deltas == {50, 100}

Bool(b) == IF b THEN "true" ELSE "false"

MoveInit ==
    /\ player \in {createCharacter(t) : t \in CharacterTypes}
    /\ enemies = <<>>
    /\ game = NoGame
    /\ keys = {}
    /\ now = 0
    /\ emitted = NoEvents
    /\ globals = [declared |-> FALSE, ENEMY_XP_VALUE |-> 0, checkCollision |-> "part_008"]
    /\ last = [op |-> "new", arg |-> 0, result |-> "none", steps |-> 0]
    /\ prev = Snapshot

MoveSetMovement ==
    \E x \in {-1, 0, 1}, y \in {-1, 0, 1} :
        /\ last.steps < MaxMoves
        /\ Becomes([Here EXCEPT !.player = setMovement(@, x, y)],
                   "setMovement", 3 * x + y, "none")
        /\ UNCHANGED <<keys, now, globals>>

MoveDash ==
    LET r == dash(Here)
    IN  /\ last.steps < MaxMoves
        /\ Becomes(r.w, "dash", 0, Bool(r.result))
        /\ UNCHANGED <<keys, now, globals>>

MoveUpdate ==
    \E dt \in Deltas :
        /\ last.steps < MaxMoves
        /\ Becomes(CharUpdate(Here, dt, now + dt), "update", dt, "none")
        /\ now' = now + dt
        /\ UNCHANGED <<keys, globals>>

MoveNext ==
    \/ MoveSetMovement
    \/ MoveDash
    \/ MoveUpdate

SpecMove == MoveInit /\ [][MoveNext]_vars

\* C7: dash() during the cooldown or during a dash returns false, changes
\* nothing of the player and emits no player:dashStart
C7_DashRejectedWhileCooling ==
    (last.op = "dash" /\ (prev.player.dashCooldown > 0 \/ prev.player.isDashing)) =>
        /\ last.result = "false"
        /\ player = prev.player
        /\ emitted = prev.emitted

\* a dash is asked for during the cooldown of an earlier dash that has ended
C7_Witness ==
    /\ last.op = "dash"
    /\ prev.player.dashCooldown > 0
    /\ ~prev.player.isDashing
    /\ last.result = "false"

HasInput(p) == p.targetVelocityX # 0 \/ p.targetVelocityY # 0

HasFacing(p) == p.directionX # 0 \/ p.directionY # 0

\* C8: a dash asked for when none is in progress and the cooldown is over is
\* rejected only if there is neither a movement input nor a facing direction;
\* otherwise it starts along the normalised input, or the facing without input
C8_DashDirection ==
    (last.op = "dash" /\ prev.player.dashCooldown = 0 /\ ~prev.player.isDashing) =>
        LET p == prev.player
            length == ISqrt(p.targetVelocityX * p.targetVelocityX
                            + p.targetVelocityY * p.targetVelocityY)
        IN  /\ (last.result = "false") <=> (~HasInput(p) /\ ~HasFacing(p))
            /\ (last.result = "true" /\ HasInput(p)) =>
                   /\ player.dashDirectionX = Quot(p.targetVelocityX * 1000, length)
                   /\ player.dashDirectionY = Quot(p.targetVelocityY * 1000, length)
            /\ (last.result = "true" /\ ~HasInput(p)) =>
                   /\ player.dashDirectionX = p.directionX
                   /\ player.dashDirectionY = p.directionY

----------------------------------------------------------------------------
(* Wave harness: a started game whose wave director is driven through      *)
(* startWave and updateWave                                                *)

WaveInit ==
    /\ \E g \in {[declared |-> FALSE, ENEMY_XP_VALUE |-> 0, checkCollision |-> "part_008"],
                 [declared |-> TRUE, ENEMY_XP_VALUE |-> 10, checkCollision |-> "part_008"]} :
           LET w == startGame("warrior")
           IN  /\ globals = g
               /\ player = w.player
               /\ enemies = w.enemies
               /\ game = w.game
               /\ emitted = w.emitted
    /\ keys = {}
    /\ now = 0
    /\ last = [op |-> "startGame", arg |-> 0, result |-> "none", steps |-> 0]
    /\ prev = Snapshot

\* game.startWave(n), before the first updateWave of the run
WaveStart ==
    \E n \in Waves :
        /\ last.op = "startGame"
        /\ Becomes(startWave(Here, n), "startWave", n, "none")
        /\ UNCHANGED <<keys, now, globals>>

\* game.updateWave(deltaTime)
WaveUpdate ==
    \E dt \in Deltas, dir \in SpawnDirections, rand \in Rands :
        LET r == updateWave(Here, dt, dir, rand, globals)
        IN  /\ last.steps < MaxWaveUpdates + 1
            /\ Becomes(r.w, "updateWave", dt, IF r.threw THEN "thrown" ELSE "returned")
            /\ now' = now + dt
            /\ UNCHANGED <<keys, globals>>

WaveNext ==
    \/ WaveStart
    \/ WaveUpdate

SpecWave == WaveInit /\ [][WaveNext]_vars

\* C10: in a boss wave exactly one boss is spawned, however often the spawn
\* timer expires: one boss from the first expiry on, and never a second
C10_OneBossPerBossWave ==
    (game.currentWave % 10 = 0 /\ game.spawnExpiries >= 1) => game.bossesSpawned = 1

----------------------------------------------------------------------------
(* The game loop in combat: the game is observed from the start of a wave, *)
(* with enemies of that wave that have closed in on the player, and with   *)
(* or without the Nova area ability chosen at an earlier level-up; no key   *)
(* is held                                                                 *)

\* the waves the runs start in
StartWaves == {1, 19}

\* time between two animation frames, in ms (the second is capped by the
\* TimeManager)
FrameGaps == {50, 250}

\* where the enemies stand relative to the player: touching it (20 px away),
\* and within reach of its attacks (120 px away)
Touching == <<2000, 0>>

InReach == <<0, 12000>>

\* the enemy createEnemy builds at the given offset from player p
EnemyNear(p, wave, offset, rand, g) ==
    createEnemy(wave, p.x + offset[1], p.y + offset[2], rand, g).value

CombatInit ==
    /\ \E type \in CharacterTypes, wave \in StartWaves, n \in 0..2,
          rand1 \in Rands, rand2 \in Rands, nova \in BOOLEAN,
          cc \in {"part_008", "helpers"} :
           LET w == startWave(startGame(type), wave)
               g == [declared |-> FALSE, ENEMY_XP_VALUE |-> 0, checkCollision |-> cc]
               e1 == EnemyNear(w.player, wave, Touching, rand1, g)
               e2 == EnemyNear(w.player, wave, InReach, rand2, g)
           IN  /\ globals = g
               /\ player = [w.player EXCEPT
                              !.abilities = IF nova THEN <<createBasicArea>> ELSE <<>>]
               /\ enemies = IF n = 0 THEN <<>> ELSE IF n = 1 THEN <<e1>> ELSE <<e1, e2>>
               /\ game = w.game
               /\ emitted = w.emitted
    /\ keys = {}
    /\ now = 10000
    /\ last = [op |-> "startWave", arg |-> 0, result |-> "none", steps |-> 0]
    /\ prev = Snapshot

\* whether the frame after gap ms spawns an enemy, and whether it draws a
\* random number
SpawnDue(gap) ==
    /\ game.state = "playing"
    /\ ~game.isPaused
    /\ game.enemySpawnTimer - deltaTime(game, now + gap) <= 0

DrawsRandom(gap) ==
    SpawnDue(gap) \/ \E i \in 1..Len(enemies) : enemies[i].behavior = "approach"

\* one animation frame: requestAnimationFrame calls gameLoop(timestamp)
Frame ==
    \E gap \in FrameGaps :
        \E dir \in IF SpawnDue(gap) THEN SpawnDirections ELSE {<<1000, 0>>},
           rand \in IF DrawsRandom(gap) THEN Rands ELSE {10} :
            /\ game.loops > 0
            /\ game.frames < MaxFrames
            /\ Shows(gameLoop(Here, now + gap, keys, dir, rand, globals))
            /\ now' = now + gap
            /\ prev' = Snapshot
            /\ last' = [last EXCEPT !.op = "gameLoop", !.arg = gap, !.result = "none"]
            /\ UNCHANGED <<keys, globals>>

\* levelUp() of one of the player's abilities
AbilityLevelUp ==
    \E k \in 1..Len(player.abilities) :
        /\ last.steps < MaxLevelUps
        /\ Becomes(AreaLevelUp(Here, k), "ability.levelUp", k, "none")
        /\ UNCHANGED <<keys, now, globals>>

CombatNext ==
    \/ Frame
    \/ AbilityLevelUp

SpecCombat == CombatInit /\ [][CombatNext]_vars

C4_DeadStayAsTheyDied ==
    \A e \in Entities :
        ~e.isAlive =>
            /\ e.x = e.deathX
            /\ e.y = e.deathY
            /\ e.health = e.deathHealth
            /\ e.attacksWhileDead = 0

----------------------------------------------------------------------------
(* Attack harness: a game just started, enemies standing around the        *)
(* player, and the player updated at chosen times                          *)

\* updates of the player per run of the attack harness
MaxAttackUpdates == 4

\* where the enemies stand relative to the player: 50 px and 100 px away, at
\* the warrior's attack range of 140 px, 1 px beyond it, and 400 px away
AttackOffsets == {<<3000, 4000>>, <<0, 10000>>, <<14000, 0>>, <<0, 14100>>, <<40000, 0>>}

\* time between two updates of the player, in ms
AttackGaps == {250, 1000}

\* a basic enemy of wave 1 at the given offset from player p
EnemyAt(p, offset) == Enemy("basic", 1, p.x + offset[1], p.y + offset[2])

\* world w with its first enemy killed, if there is one and dead is asked for
FirstKilled(w, dead) ==
    IF dead /\ Len(w.enemies) >= 1 THEN EnemyTakeDamage(w, 1, 6000) ELSE w

AttackInit ==
    /\ \E type \in CharacterTypes, n \in 0..2, o1 \in AttackOffsets, o2 \in AttackOffsets,
          dead \in BOOLEAN :
           \E w \in {startGame(type)} :
               \E v \in {FirstKilled([w EXCEPT !.enemies =
                                         IF n = 0 THEN <<>>
                                         ELSE IF n = 1 THEN <<EnemyAt(w.player, o1)>>
                                         ELSE <<EnemyAt(w.player, o1),
                                                EnemyAt(w.player, o2)>>],
                                    dead)} :
                   /\ player = v.player
                   /\ enemies = v.enemies
                   /\ game = v.game
                   /\ emitted = v.emitted
    /\ globals = [declared |-> FALSE, ENEMY_XP_VALUE |-> 0, checkCollision |-> "part_008"]
    /\ keys = {}
    /\ now = 0
    /\ last = [op |-> "startGame", arg |-> 0, result |-> "none", steps |-> 0]
    /\ prev = Snapshot

\* player.update(deltaTime, enemies, worldBounds) gap ms after the last one
AttackUpdate ==
    \E gap \in AttackGaps :
        /\ last.steps < MaxAttackUpdates
        /\ Becomes(CharUpdate(Here, Min(gap, maxDeltaTime), now + gap), "update", gap, "none")
        /\ now' = now + gap
        /\ UNCHANGED <<keys, globals>>

AttackNext == AttackUpdate

SpecAttack == AttackInit /\ [][AttackNext]_vars

\* distance of the player from enemy i as it stood before the update
DistanceTo(i) == Distance(prev.enemies[i].x - player.x, prev.enemies[i].y - player.y)

\* the living enemies within attackRange in the update just made
InAttackRange ==
    {i \in 1..Len(prev.enemies) :
        prev.enemies[i].isAlive /\ DistanceTo(i) <= prev.player.attackRange}

\* the enemies whose health the update just made has changed
Damaged == {i \in 1..Len(enemies) : enemies[i].health # prev.enemies[i].health}

\* C13: a player update whose attack is due and that finds living enemies in
\* range takes exactly stats.damage from exactly one of the nearest of them and
\* sets the attack timer to the current time; any other update damages no
\* enemy and leaves the attack timer alone
C13_AutoAttackNearest ==
    last.op = "update" =>
        IF ~attackCooling(prev.player, now) /\ InAttackRange # {}
        THEN /\ \E i \in InAttackRange :
                   /\ Damaged = {i}
                   /\ \A j \in InAttackRange : DistanceTo(i) <= DistanceTo(j)
                   /\ enemies[i].health = prev.enemies[i].health - prev.player.damage
             /\ player.lastAttackTime = now
        ELSE /\ Damaged = {}
             /\ player.lastAttackTime = prev.player.lastAttackTime

\* an attack that passed over a living enemy in range for a nearer one
C13_Witness ==
    /\ last.op = "update"
    /\ Len(enemies) = 2
    /\ Damaged = {2}
    /\ prev.enemies[1].isAlive
    /\ 1 \in InAttackRange
    /\ DistanceTo(2) < DistanceTo(1)


----------------------------------------------------------------------------
(* The abilities of the player: Character.update(deltaTime, enemies) uses   *)
(* every ability that is ready.  The player has been given two abilities by *)
(* the upgrade panel and stands still.                                      *)

\* updates of the player per run of the ability harness
MaxAbilityUpdates == 6

\* the active abilities AbilityFactory builds
ActiveAbilities == {createBasicProjectile, createMultiProjectile, createBasicArea}

\* where the enemy stands, from the player: inside the radius of the area
\* (150 px), on it, just outside it, and far away
AbilityOffsets == {<<5000, 0>>, <<9000, 12000>>, <<0, 15100>>, <<0, -22000>>}

\* time between two updates of the player, in ms, and performance.now() when
\* the second ability has been added
AbilityGaps == {1000, 2500}

AbilityStarts == {0, 4000}

AbilityInit ==
    /\ \E type \in CharacterTypes, a \in ActiveAbilities, b \in ActiveAbilities,
          n \in 0..1, o \in AbilityOffsets :
           \E w \in {addAbility(addAbility(startGame(type), a), b)} :
               /\ player = w.player
               /\ enemies = IF n = 0 THEN <<>> ELSE <<EnemyAt(w.player, o)>>
               /\ game = w.game
               /\ emitted = w.emitted
    /\ globals = [declared |-> FALSE, ENEMY_XP_VALUE |-> 0, checkCollision |-> "part_008"]
    /\ keys = {}
    /\ now \in AbilityStarts
    /\ last = [op |-> "startGame", arg |-> 0, result |-> "none", steps |-> 0]
    /\ prev = Snapshot

\* player.update(deltaTime, enemies) gap ms after the last one
AbilityUpdate ==
    \E gap \in AbilityGaps :
        /\ last.steps < MaxAbilityUpdates
        /\ Becomes(CharUpdate(Here, Min(gap, maxDeltaTime), now + gap), "update", gap, "none")
        /\ now' = now + gap
        /\ UNCHANGED <<keys, globals>>

AbilityNext == AbilityUpdate

SpecAbility == AbilityInit /\ [][AbilityNext]_vars

\* the abilities the update just made has used
Used == {k \in 1..Len(player.abilities) :
            player.abilities[k].lastUsedTime # prev.player.abilities[k].lastUsedTime}

\* C14: an update of a living player uses exactly the abilities whose own
\* cooldown has gone by since their own last use, each once and at the
\* current time, and leaves the last-use time of every other ability alone
C14_OncePerCooldown ==
    (last.op = "update" /\ prev.player.isAlive) =>
        /\ \A k \in 1..Len(player.abilities) :
               LET before == prev.player.abilities[k]
               IN  IF now - before.lastUsedTime >= before.cooldown
                   THEN player.abilities[k].lastUsedTime = now
                   ELSE player.abilities[k].lastUsedTime = before.lastUsedTime
        /\ emitted["ability:used"] = prev.emitted["ability:used"] + Cardinality(Used)

\* an update that used one ability while another, used before, was still
\* cooling down
C14_Witness ==
    /\ last.op = "update"
    /\ \E j \in Used :
           \E k \in 1..Len(player.abilities) :
               /\ k \notin Used
               /\ player.abilities[k].lastUsedTime > 0
               /\ prev.player.abilities[j].lastUsedTime > 0


----------------------------------------------------------------------------
(* Projectiles in flight: each frame the player is updated (and shoots when *)
(* a projectile ability is ready) and then Game.updateProjectiles moves the *)
(* projectiles, as Game.update of part_007 orders them.  Enemies stand      *)
(* still.                                                                   *)

\* frames per run of the projectile harness
MaxProjectileFrames == 54

\* the projectile abilities AbilityFactory builds
ProjectileAbilities == {createBasicProjectile, createMultiProjectile}

\* where the enemies stand, from the player, who faces (0, 1): two places the
\* projectile overlaps in the same frame, and one farther along its way
ProjectileOffsets == {<<0, 3000>>, <<1000, 3000>>, <<0, 8000>>}

\* length of the frames of a run, in ms
FrameTimes == {16, 100}

ProjectileInit ==
    /\ \E type \in CharacterTypes, a \in ProjectileAbilities, n \in 0..2,
          o1 \in ProjectileOffsets, o2 \in ProjectileOffsets :
           \E w \in {addAbility(startGame(type), a)} :
               /\ player = w.player
               /\ enemies = IF n = 0 THEN <<>>
                            ELSE IF n = 1 THEN <<EnemyAt(w.player, o1)>>
                            ELSE <<EnemyAt(w.player, o1), EnemyAt(w.player, o2)>>
               /\ game = w.game
               /\ emitted = w.emitted
    /\ globals = [declared |-> FALSE, ENEMY_XP_VALUE |-> 0, checkCollision |-> "part_008"]
    /\ keys = {}
    /\ now = 3000
    /\ last = [op |-> "startGame", arg |-> 0, result |-> "none", steps |-> 0]
    /\ prev = Snapshot

\* the first half of a frame of dt ms: this.player.update(deltaTime, this.enemies).
\* The frames of one run are equally long.
ProjectilePlayerUpdate ==
    \E dt \in FrameTimes :
        /\ last.op = "startGame" \/ (last.op = "updateProjectiles" /\ dt = last.arg)
        /\ last.steps < 2 * MaxProjectileFrames
        /\ Becomes(CharUpdate(Here, dt, now + dt), "update", dt, "none")
        /\ now' = now + dt
        /\ UNCHANGED <<keys, globals>>

\* the second half of the frame: this.updateProjectiles(deltaTime)
ProjectilesUpdate ==
    /\ last.op = "update"
    /\ Becomes(updateProjectiles07(Here, last.arg), "updateProjectiles", last.arg, "none")
    /\ UNCHANGED <<keys, now, globals>>

ProjectileNext == ProjectilePlayerUpdate \/ ProjectilesUpdate

SpecProjectile == ProjectileInit /\ [][ProjectileNext]_vars

\* how far projectile p is from where it was created
FromOrigin(p) == Distance(p.x - p.originX, p.y - p.originY)

\* C15: at the end of a frame no projectile of the active collection is
\* farther from its origin than its range plus the step of one frame
C15_WithinRange ==
    last.op = "updateProjectiles" =>
        \A j \in 1..Len(game.projectiles) :
            FromOrigin(game.projectiles[j])
                <= game.projectiles[j].range + game.projectiles[j].speed

\* C16: no projectile that does not pierce has damaged more than one enemy,
\* and none that has damaged an enemy is in the active collection at the end
\* of a frame
C16_OneHit ==
    /\ game.mostHits <= 1
    /\ last.op = "updateProjectiles" =>
           \A j \in 1..Len(game.projectiles) :
               game.projectiles[j].piercing \/ game.projectiles[j].hits = 0


----------------------------------------------------------------------------
(* Area effects: the player stands still with the area ability, which is    *)
(* cast when it is ready; enemies walk, and Game.updateAreas ages the areas *)

\* steps per run of the area harness
MaxAreaSteps == 5

\* time that goes by before updateAreas is called, in ms
AreaGaps == {250, 8000}

AreaInit ==
    /\ \E type \in CharacterTypes, n \in 0..2, o1 \in AbilityOffsets, o2 \in AbilityOffsets,
          dead \in BOOLEAN :
           \E w \in {addAbility(startGame(type), createBasicArea)} :
               \E v \in {FirstKilled([w EXCEPT !.enemies =
                                         IF n = 0 THEN <<>>
                                         ELSE IF n = 1 THEN <<EnemyAt(w.player, o1)>>
                                         ELSE <<EnemyAt(w.player, o1),
                                                EnemyAt(w.player, o2)>>],
                                    dead)} :
                   /\ player = v.player
                   /\ enemies = v.enemies
                   /\ game = v.game
                   /\ emitted = v.emitted
    /\ globals = [declared |-> FALSE, ENEMY_XP_VALUE |-> 0, checkCollision |-> "part_008"]
    /\ keys = {}
    /\ now = 8000
    /\ last = [op |-> "startGame", arg |-> 0, result |-> "none", steps |-> 0]
    /\ prev = Snapshot

\* if (ability.isReady()) ability.use(this, enemies), of Character.update
AreaCast ==
    /\ last.steps < MaxAreaSteps
    /\ player.isAlive
    /\ isReady(player.abilities[1], now)
    /\ Becomes(AreaUse(Here, 1, now), "use", 1, "none")
    /\ UNCHANGED <<keys, now, globals>>

\* levelUp() of the area ability, up to level 3 (which brings knockback)
AreaLevelUpOp ==
    /\ last.steps < MaxAreaSteps
    /\ player.abilities[1].level < 3
    /\ Becomes(AreaLevelUp(Here, 1), "ability.levelUp", 1, "none")
    /\ UNCHANGED <<keys, now, globals>>

\* enemy.update(deltaTime, player) of enemy i, half a second after its last
\* choice of path
AreaEnemyUpdate ==
    \E i \in 1..Len(enemies) :
        /\ last.steps < MaxAreaSteps
        /\ Becomes(EnemyUpdate(Here, i, 500, 10, globals).w, "enemy.update", i, "none")
        /\ UNCHANGED <<keys, now, globals>>

\* this.updateAreas(deltaTime), gap ms later
AreasUpdate ==
    \E gap \in AreaGaps :
        /\ last.steps < MaxAreaSteps
        /\ Becomes(updateAreas07(Here, now + gap), "updateAreas", gap, "none")
        /\ now' = now + gap
        /\ UNCHANGED <<keys, globals>>

AreaNext == AreaCast \/ AreaLevelUpOp \/ AreaEnemyUpdate \/ AreasUpdate

SpecArea == AreaInit /\ [][AreaNext]_vars

\* the area the use just made has created
Cast == game.areas[Len(game.areas)]

\* distance of enemy i, as it stood before the last step, from the point (x, y)
WasFrom(i, x, y) == Distance(prev.enemies[i].x - x, prev.enemies[i].y - y)

\* C17 as stated: a use of the area ability takes the area's damage from
\* exactly the living enemies strictly nearer to the caster than the radius
C17_StrictlyInside ==
    last.op = "use" =>
        \A i \in 1..Len(enemies) :
            enemies[i].health =
                prev.enemies[i].health -
                    (IF prev.enemies[i].isAlive /\ WasFrom(i, player.x, player.y) < Cast.radius
                     THEN Cast.damage ELSE 0)

\* C17, amended: a use of the area ability takes the area's damage from
\* exactly the living enemies at most the radius away from the caster, those
\* exactly the radius away included
C17_WithinRadius ==
    last.op = "use" =>
        \A i \in 1..Len(enemies) :
            enemies[i].health =
                prev.enemies[i].health -
                    (IF prev.enemies[i].isAlive /\ WasFrom(i, player.x, player.y) <= Cast.radius
                     THEN Cast.damage ELSE 0)

\* a use that has damaged an enemy exactly the radius away, and spared another
C17_Witness ==
    /\ last.op = "use"
    /\ \E i \in 1..Len(enemies) :
           /\ WasFrom(i, player.x, player.y) = Cast.radius
           /\ enemies[i].health = prev.enemies[i].health - Cast.damage
    /\ \E i \in 1..Len(enemies) :
           /\ prev.enemies[i].isAlive
           /\ enemies[i].health = prev.enemies[i].health


\* the living enemies that stand within an area of the active list
Within ==
    {i \in 1..Len(enemies) :
        /\ enemies[i].isAlive
        /\ \E j \in 1..Len(game.areas) :
               Distance(enemies[i].x - game.areas[j].x, enemies[i].y - game.areas[j].y)
                   <= game.areas[j].radius}

\* C18: an area damages enemies only in the use that creates it: the update
\* of an enemy and updateAreas leave the health of every enemy as it was,
\* also of those that stand within an area of the active list
C18_DamageOnlyAtCreation ==
    last.op \in {"enemy.update", "updateAreas"} =>
        \A i \in 1..Len(enemies) : enemies[i].health = prev.enemies[i].health

\* updateAreas has kept an area in which a living enemy stands that was not
\* damaged when the area was created
C18_Witness ==
    /\ last.op = "updateAreas"
    /\ \E i \in Within : enemies[i].health = enemies[i].maxHealth


----------------------------------------------------------------------------
(* The game loop with its buttons: animation frames, the pause button, the  *)
(* options of the upgrade panel and the start button.  The run starts in    *)
(* wave 19 with enemies touching the player, either at the start of the     *)
(* wave or after the frame in which the player has reached level 2: the     *)
(* upgrade panel is open and the game is paused.  No update damages the     *)
(* player, checkCollision(enemy, player) being never true: the harness      *)
(* itself calls enemy.attack(player), between two frames.                   *)

\* clicks per run of the loop harness
MaxClicks == 3

\* where the enemies of the loop harness stand, from the player
LoopOffsets == <<<<2000, 0>>, <<0, 2000>>, <<-2000, 0>>>>

\* what the upgrade panel offers
Upgrades == {createBasicArea, createBasicProjectile, createStatBoost("damage")}

\* every enemy of w from i on attacks the player
RECURSIVE AllAttack(_, _)
AllAttack(w, i) == IF i > Len(w.enemies) THEN w ELSE AllAttack(EnemyAttack(w, i), i + 1)

\* world w after the frame in which the player has gained the experience of
\* level 2
LevelledUp(w) == CharGainExperience(w, w.player.experienceToNextLevel)

LoopInit ==
    /\ \E type \in CharacterTypes, n \in {1, 3}, rand \in {10, 90}, open \in BOOLEAN,
          cc \in {"part_008", "helpers"} :
           \E g \in {[declared |-> FALSE, ENEMY_XP_VALUE |-> 0, checkCollision |-> cc]} :
               \E w \in {startWave(startGame(type), 19)} :
                   \E v \in {[w EXCEPT !.enemies =
                                [i \in 1..n |-> EnemyNear(w.player, 19, LoopOffsets[i], rand, g)]]} :
                       \E u \in {IF open THEN LevelledUp(v) ELSE v} :
                           /\ globals = g
                           /\ player = u.player
                           /\ enemies = u.enemies
                           /\ game = u.game
                           /\ emitted = u.emitted
    /\ keys = {}
    /\ now = 10000
    /\ last = [op |-> "startWave", arg |-> 0, result |-> "none", steps |-> 0]
    /\ prev = Snapshot

\* one animation frame, 100 ms after the last one; an enemy that is spawned
\* appears to the right of the player, and Math.random() returns 0.1
LoopFrame ==
    /\ game.loops > 0
    /\ game.frames < MaxFrames
    /\ Shows(gameLoop(Here, now + 100, keys, <<1000, 0>>, 10, globals))
    /\ now' = now + 100
    /\ prev' = Snapshot
    /\ last' = [last EXCEPT !.op = "gameLoop", !.arg = 100, !.result = "none"]
    /\ UNCHANGED <<keys, globals>>

\* the click on the pause button
TogglePause ==
    /\ last.steps < MaxClicks
    /\ Becomes(togglePause(Here), "togglePause", 0, "none")
    /\ UNCHANGED <<keys, now, globals>>

\* the click on an option of the open upgrade panel
ChooseUpgrade ==
    \E ability \in Upgrades :
        /\ last.steps < MaxClicks
        /\ game.panelsShown > game.upgradesChosen
        /\ Becomes(chooseUpgrade(Here, ability), "chooseUpgrade", 0, "none")
        /\ UNCHANGED <<keys, now, globals>>

\* game.startGame(characterType) on the running Game: the handler of the
\* menu's start button
Restart ==
    \E type \in CharacterTypes :
        /\ last.steps < MaxClicks
        /\ Becomes(restart(Here, type), "startGame", 0, "none")
        /\ UNCHANGED <<keys, now, globals>>

\* enemy.attack(player) of every enemy, called between two frames
EnemiesAttack ==
    /\ last.steps < MaxClicks
    /\ player.isAlive
    /\ Len(enemies) > 0
    /\ Becomes(AllAttack(Here, 1), "attack", 0, "none")
    /\ UNCHANGED <<keys, now, globals>>

LoopNext == LoopFrame \/ TogglePause \/ ChooseUpgrade \/ Restart \/ EnemiesAttack

SpecLoop == LoopInit /\ [][LoopNext]_vars

\* what the simulation holds: the player, the enemies, and of the game its
\* time, projectiles, areas, wave number, wave timer and spawn timer
Simulation(p, es, g) ==
    <<p, es, g.gameTime, g.projectiles, g.areas, g.currentWave, g.waveTimer,
      g.enemySpawnTimer>>

\* C19: an animation frame that finds the game paused, or in a state other
\* than playing, leaves the simulation as it was
C19_FrozenWhilePaused ==
    [][(game'.frames = game.frames + 1 /\ (game.isPaused \/ game.state # "playing"))
           => Simulation(player', enemies', game') = Simulation(player, enemies, game)]_vars

\* a frame has gone by without an update while the game was paused with
\* living enemies within the range of a living player's attack
C19_Witness ==
    /\ last.op = "gameLoop"
    /\ game.isPaused
    /\ game.state = "playing"
    /\ emitted["game:timeUpdate"] = prev.emitted["game:timeUpdate"]
    /\ player.isAlive
    /\ \E i \in 1..Len(enemies) :
           /\ enemies[i].isAlive
           /\ Distance(enemies[i].x - player.x, enemies[i].y - player.y) <= player.attackRange

C21_OneLoop == game.loops <= 1


----------------------------------------------------------------------------
(* The game loop late in a fight: wave 1, one or two enemies touching the   *)
(* player or within reach of its attacks, which the player's attacks have   *)
(* wounded so far that the next one kills them.                             *)

\* enemy i of w takes the player's attacks until one more would kill it
RECURSIVE Wounded(_, _)
Wounded(w, i) ==
    IF w.enemies[i].health <= w.player.damage THEN w
    ELSE Wounded(EnemyTakeDamage(w, i, w.player.damage), i)

HuntInit ==
    /\ \E type \in CharacterTypes, n \in 1..2, rand \in {10, 90}, near \in BOOLEAN,
          hurt \in BOOLEAN, cc \in {"part_008", "helpers"} :
           \E g \in {[declared |-> FALSE, ENEMY_XP_VALUE |-> 0, checkCollision |-> cc]} :
               \E w \in {startGame(type)} :
                   \E v \in {[w EXCEPT !.enemies =
                                [i \in 1..n |->
                                    EnemyNear(w.player, 1,
                                              IF near /\ i = 1 THEN Touching ELSE InReach,
                                              rand, g)]]} :
                       \E u \in {IF hurt THEN Wounded(v, 1) ELSE v} :
                           /\ globals = g
                           /\ player = u.player
                           /\ enemies = u.enemies
                           /\ game = u.game
                           /\ emitted = u.emitted
    /\ keys = {}
    /\ now = 10000
    /\ last = [op |-> "startGame", arg |-> 0, result |-> "none", steps |-> 0]
    /\ prev = Snapshot

HuntNext == Frame

SpecHunt == HuntInit /\ [][HuntNext]_vars

\* the last step was a frame whose update ran to its end
Updated ==
    /\ last.op = "gameLoop"
    /\ emitted["game:timeUpdate"] > prev.emitted["game:timeUpdate"]
    /\ game.loops >= 1

\* C22: after a frame whose update ran to its end, no enemy that was dead
\* before the frame is in the list of enemies
C22_DeadPruned ==
    Updated =>
        \A i \in 1..Len(enemies) :
            enemies[i].isAlive \/ \A j \in 1..Len(prev.enemies) : prev.enemies[j] # enemies[i]


\* the living enemies whose circle of diameter size overlaps, after the last
\* step, the circle of the player, of diameter stats.size
Touchers ==
    {i \in 1..Len(enemies) :
        /\ enemies[i].isAlive
        /\ Distance(player.x - enemies[i].x, player.y - enemies[i].y)
               < (enemies[i].size + player.size) \div 2}

\* C25: after a frame whose update ran to its end with a living player, the
\* player's health is lower than before by the damage of an enemy whose
\* circle overlaps the player's
C25_TouchHurts ==
    (Updated /\ prev.player.isAlive) =>
        \A i \in Touchers : player.health <= prev.player.health - enemies[i].damage

----------------------------------------------------------------------------
(* Game.updateWave called with delta times of any size: a frame of 0.1 s,   *)
(* the most the TimeManager lets through, and delta times longer than the   *)
(* spawn timer and longer than a wave                                       *)

LongDeltas == {100, 2500, 70000}

\* game.updateWave(deltaTime)
LongWaveUpdate ==
    \E dt \in LongDeltas, dir \in {<<1000, 0>>}, rand \in {10} :
        \E r \in {updateWave(Here, dt, dir, rand, globals)} :
            /\ last.steps < MaxWaveUpdates + 1
            /\ Becomes(r.w, "updateWave", dt, IF r.threw THEN "thrown" ELSE "returned")
            /\ now' = now + dt
            /\ UNCHANGED <<keys, globals>>

LongNext == WaveStart \/ LongWaveUpdate

SpecLong == WaveInit /\ [][LongNext]_vars

\* the enemies the last step has added, and the waves it has started
Spawned == Len(enemies) - Len(prev.enemies)

WavesStarted == emitted["wave:start"] - prev.emitted["wave:start"]

\* 1 / enemySpawnRate of the given wave, in ms
SpawnPeriod(wave) ==
    100000 \div (ENEMY_SPAWN_RATE * (100 + (wave - 1) * ENEMY_SPAWN_INCREASE_RATE))

\* C23 as stated: one updateWave spawns at most one enemy and starts at most
\* one wave, and after a spawn the spawn timer is 1 / the current spawn rate
C23_OneSpawnCurrentRate ==
    last.op = "updateWave" =>
        /\ Spawned <= 1
        /\ WavesStarted <= 1
        /\ Spawned = 1 => game.enemySpawnTimer = 100000 \div game.enemySpawnRate

\* C23, amended: one updateWave spawns at most one enemy and starts at most
\* one wave, and after a spawn the spawn timer is 1 / the spawn rate of the
\* wave in which the enemy was spawned, the wave before the update
C23_OneSpawnPerUpdate ==
    last.op = "updateWave" =>
        /\ Spawned <= 1
        /\ WavesStarted <= 1
        /\ Spawned = 1 => game.enemySpawnTimer = SpawnPeriod(game.currentWave - WavesStarted)

\* an updateWave with a delta time longer than a wave has spawned one enemy
\* and started one wave
C23_Witness ==
    /\ last.op = "updateWave"
    /\ last.arg > WAVE_DURATION * 1000
    /\ Spawned = 1
    /\ WavesStarted = 1

----------------------------------------------------------------------------
(* The wave director left running: a started game whose updateWave is      *)
(* called again and again with one positive delta time.  Game.gameLoop has *)
(* no try: an update that throws leaves it before requestAnimationFrame,   *)
(* and no update follows.                                                  *)

EndlessDeltas == {2500, 10000, 40000}

\* game.updateWave(deltaTime), the delta time being that of the run
EndlessUpdate ==
    \E dt \in EndlessDeltas :
        \E r \in {updateWave(Here, dt, <<1000, 0>>, 10, globals)} :
            /\ last.op = "startGame" \/ dt = last.arg
            /\ last.result # "thrown"
            /\ game.state = "playing"
            /\ game.currentWave < MaxWave
            /\ Becomes(r.w, "updateWave", dt, IF r.threw THEN "thrown" ELSE "returned")
            /\ now' = now + dt
            /\ UNCHANGED <<keys, globals>>

EndlessNext == EndlessUpdate

\* the browser keeps granting the animation frames the loop requests
SpecEndless == WaveInit /\ [][EndlessNext]_vars /\ WF_vars(EndlessUpdate)

\* C24, the steps: the wave number changes only by +1 and only in an update
\* in which the wave timer expires, and wave:start has been emitted once for
\* each wave from 1 to the current one
C24_WaveSteps ==
    [][/\ game'.currentWave \in {game.currentWave, game.currentWave + 1}
       /\ game'.currentWave # game.currentWave => game.waveTimer - last'.arg <= 0
       /\ emitted'["wave:start"] = game'.currentWave]_vars

\* C24: there is no last wave: while the game is playing the wave number
\* passes every bound, here every wave up to MaxWave
C24_NoLastWave == <>(game.currentWave >= MaxWave)

----------------------------------------------------------------------------
(* Kills: a started game with one or two enemies next to the player, the   *)
(* player holding a projectile ability.  The player is updated, the        *)
(* projectiles fly as in the Game of part_007, and the living enemies      *)
(* attack the player between the updates.                                  *)

\* steps per run of the kill harness
MaxKillSteps == 5

\* where the enemies stand, from the player: 25 px to the left, the nearest,
\* and 30 px below, where the player faces
KillOffsets == <<<<-2500, 0>>, <<0, 3000>>>>

\* the waves the enemies are of: xpValue 10, and 100, which pays a level
KillWaves == {1, 46}

\* the player of w takes the attacks of enemy i until one more would kill it
RECURSIVE Battered(_, _)
Battered(w, i) ==
    IF w.player.health <= w.enemies[i].damage THEN w
    ELSE Battered(EnemyAttack(w, i), i)

\* every living enemy of w from i on attacks the player
RECURSIVE LivingAttack(_, _)
LivingAttack(w, i) ==
    IF i > Len(w.enemies) THEN w
    ELSE LivingAttack(IF w.enemies[i].isAlive THEN EnemyAttack(w, i) ELSE w, i + 1)

KillInit ==
    /\ \E type \in CharacterTypes, a \in ProjectileAbilities, n \in 1..2,
          wave \in KillWaves, weak \in BOOLEAN :
           \E w \in {addAbility(startGame(type), a)} :
               \E v \in {[w EXCEPT !.enemies =
                            [i \in 1..n |-> Enemy("basic", wave,
                                                  w.player.x + KillOffsets[i][1],
                                                  w.player.y + KillOffsets[i][2])]]} :
                   \E u \in {IF n = 2 THEN Wounded(Wounded(v, 1), 2) ELSE Wounded(v, 1)} :
                       \E x \in {IF weak THEN Battered(u, 1) ELSE u} :
                           /\ player = x.player
                           /\ enemies = x.enemies
                           /\ game = x.game
                           /\ emitted = x.emitted
    /\ globals = [declared |-> FALSE, ENEMY_XP_VALUE |-> 0, checkCollision |-> "part_008"]
    /\ keys = {}
    /\ now = 10000
    /\ last = [op |-> "startGame", arg |-> 0, result |-> "none", steps |-> 0]
    /\ prev = Snapshot

\* this.player.update(deltaTime, this.enemies) of a frame of 100 ms
KillPlayerUpdate ==
    /\ last.steps < MaxKillSteps
    /\ Becomes(CharUpdate(Here, 100, now + 100), "update", 100, "none")
    /\ now' = now + 100
    /\ UNCHANGED <<keys, globals>>

\* this.updateProjectiles(deltaTime) of a frame of 100 ms
KillProjectilesUpdate ==
    /\ last.steps < MaxKillSteps
    /\ Len(game.projectiles) > 0
    /\ Becomes(updateProjectiles07(Here, 100), "updateProjectiles", 100, "none")
    /\ UNCHANGED <<keys, now, globals>>

\* enemy.attack(player) of every living enemy
KillAttack ==
    /\ last.steps < MaxKillSteps
    /\ player.isAlive
    /\ Becomes(LivingAttack(Here, 1), "attack", 0, "none")
    /\ UNCHANGED <<keys, now, globals>>

KillNext == KillPlayerUpdate \/ KillProjectilesUpdate \/ KillAttack

SpecKill == KillInit /\ [][KillNext]_vars

\* the experience the levels below the given one have cost
RECURSIVE XpPaid(_)
XpPaid(level) == IF level <= 1 THEN 0 ELSE XpPaid(level - 1) + XpThreshold(level - 1)

\* all the experience character p has gained
TotalXp(p) == p.experience + XpPaid(p.level)

\* the xpValue of the enemies, from i on, that the last step has killed
RECURSIVE XpOfKilled(_)
XpOfKilled(i) ==
    IF i > Len(enemies) THEN 0
    ELSE (IF ~enemies[i].isAlive /\ prev.enemies[i].isAlive THEN enemies[i].xpValue ELSE 0)
         + XpOfKilled(i + 1)

\* C26: no enemy has emitted enemy:death twice, enemiesDefeated counts the
\* death events, and a step has given the player the xpValue of the enemies
\* it killed if the player was alive, and nothing if it was dead
C26_DeathPaidOnce ==
    /\ \A i \in 1..Len(enemies) : enemies[i].deathEvents <= 1
    /\ game.enemiesDefeated = emitted["enemy:death"]
    /\ TotalXp(player) - TotalXp(prev.player) =
           IF prev.player.isAlive THEN XpOfKilled(1) ELSE 0

\* two enemies have died, the first under the living player's attack and the
\* second, after the player's death, under a projectile: the player has the
\* experience of the first alone
C26_Witness ==
    /\ ~player.isAlive
    /\ Len(enemies) = 2
    /\ \A i \in 1..2 : ~enemies[i].isAlive /\ enemies[i].deathEvents = 1
    /\ game.enemiesDefeated = 2
    /\ TotalXp(player) = enemies[1].xpValue

----------------------------------------------------------------------------
(* EventEmitter (src/unnamed/part_010).  this.events maps an event name to  *)
(* the array of its callbacks; a name without array is the empty sequence.  *)
(* A function is a record [kind, id]; serial is history: the number of the  *)
(* on() call that made the subscription.  handles are the unsubscribe       *)
(* functions on() has returned, invoked the sequence of calls of the last   *)
(* emit.                                                                    *)

\* calls of on() and once() per run, and operations per run
MaxSubscriptions == 3

MaxEventSteps == 4

EmitterEvents == {"a", "b"}

\* the functions subscribed in the runs: f and g do nothing, stop1 invokes the
\* first unsubscribe function on() has returned, addG subscribes g to event
\* a, bad throws
Plain(kind) == [kind |-> kind, id |-> 0]

Callbacks == {Plain("f"), Plain("g"), Plain("stop1"), Plain("addG"), Plain("bad")}

\* new EventEmitter()
NewEmitter == [events |-> [e \in EmitterEvents |-> <<>>], handles |-> <<>>, invoked |-> <<>>]

\* this.events[event].filter(cb => cb !== callback), from entry i on
RECURSIVE Without(_, _, _)
Without(subs, callback, i) ==
    IF i > Len(subs) THEN <<>>
    ELSE (IF subs[i].callback # callback THEN <<subs[i]>> ELSE <<>>)
         \o Without(subs, callback, i + 1)

\* the arrow function on(event, callback) returns, invoked: on a name whose
\* array was deleted, this.events[event].filter throws a TypeError
unsubscribe(em, h) ==
    IF em.events[h.event] = <<>> THEN Threw(em)
    ELSE Done([em EXCEPT !.events[h.event] = Without(@, h.callback, 1)])

\* the unsubscribe function that removes one subscription, the one of the
\* on() call that returned it, and does nothing if that one is gone
RECURSIVE WithoutSerial(_, _, _)
WithoutSerial(subs, serial, i) ==
    IF i > Len(subs) THEN <<>>
    ELSE (IF subs[i].serial # serial THEN <<subs[i]>> ELSE <<>>)
         \o WithoutSerial(subs, serial, i + 1)

\* EventEmitter.on(event, callback); private: the handle is kept by once
subscribe(em, event, callback, private) ==
    LET serial == Len(em.handles) + 1
    IN  [em EXCEPT !.events[event] = Append(@, [callback |-> callback, serial |-> serial]),
                   !.handles = Append(@, [event |-> event, callback |-> callback,
                                          serial |-> serial, private |-> private])]

on(em, event, callback) == subscribe(em, event, callback, FALSE)

\* EventEmitter.once(event, callback) for a callback that does nothing: the
\* wrapper is a new function
once(em, event) ==
    subscribe(em, event, [kind |-> "once", id |-> Len(em.handles) + 1], TRUE)

\* callback(...args) for the subscription sub of the array being visited
call(em, sub, arg) ==
    LET em1 == [em EXCEPT !.invoked = Append(@, [serial |-> sub.serial, arg |-> arg])]
        kind == sub.callback.kind
    IN  CASE kind = "stop1" -> unsubscribe(em1, em1.handles[1])
          [] kind = "once" -> unsubscribe(em1, em1.handles[sub.callback.id])
          [] kind = "addG" -> Done(on(em1, "a", Plain("g")))
          [] kind = "bad" -> Threw(em1)
          [] OTHER -> Done(em1)

\* this.events[event].forEach(callback => callback(...args)), from index i on:
\* forEach visits the array it was called on, up to the length it had
RECURSIVE forEach(_, _, _, _)
forEach(em, subs, i, arg) ==
    IF i > Len(subs) THEN Done(em)
    ELSE LET r == call(em, subs[i], arg)
         IN  IF r.threw THEN r ELSE forEach(r.w, subs, i + 1, arg)

\* an emit that reads this.events[event] again before every call
RECURSIVE emitLive(_, _, _, _)
emitLive(em, event, arg, i) ==
    IF i > Len(em.events[event]) THEN Done(em)
    ELSE LET r == call(em, em.events[event][i], arg)
         IN  IF r.threw THEN r ELSE emitLive(r.w, event, arg, i + 1)

\* EventEmitter.emit(event, ...args); i is 1, the first index of the array
emit(em, event, arg, i) == forEach(em, em.events[event], i, arg)

EmitterInit ==
    /\ globals = NewEmitter
    /\ player = createCharacter("warrior")
    /\ enemies = <<>>
    /\ game = NoGame
    /\ emitted = NoEvents
    /\ keys = {}
    /\ now = 0
    /\ last = [op |-> "new", arg |-> 0, result |-> "none", steps |-> 0]
    /\ prev = NewEmitter

\* the variables after an emitter operation on handle or event arg that left r
Leaves(r, op, arg) ==
    /\ globals' = r.w
    /\ prev' = globals
    /\ last' = [op |-> op, arg |-> arg, result |-> IF r.threw THEN "thrown" ELSE "returned",
                steps |-> last.steps + 1]
    /\ UNCHANGED <<player, enemies, game, emitted, keys, now>>

\* eventEmitter.on(event, callback)
EmitterOn ==
    \E event \in EmitterEvents, callback \in Callbacks :
        /\ last.steps < MaxEventSteps
        /\ Len(globals.handles) < MaxSubscriptions
        /\ Leaves(Done(on(globals, event, callback)), "on", event)

\* eventEmitter.once(event, callback)
EmitterOnce ==
    \E event \in EmitterEvents :
        /\ last.steps < MaxEventSteps
        /\ Len(globals.handles) < MaxSubscriptions
        /\ Leaves(Done(once(globals, event)), "once", event)

\* the k-th function on() has returned is invoked
EmitterUnsubscribe ==
    \E k \in 1..Len(globals.handles) :
        /\ last.steps < MaxEventSteps
        /\ ~globals.handles[k].private
        /\ Leaves(unsubscribe(globals, globals.handles[k]), "unsubscribe", k)

\* eventEmitter.emit(event, arg)
EmitterEmit ==
    \E event \in EmitterEvents, arg \in {1, 2} :
        /\ last.steps < MaxEventSteps
        /\ Leaves(emit([globals EXCEPT !.invoked = <<>>], event, arg, 1),
                  "emit", <<event, arg>>)

EmitterNext == EmitterOn \/ EmitterOnce \/ EmitterUnsubscribe \/ EmitterEmit

SpecEmitter == EmitterInit /\ [][EmitterNext]_vars

\* C27: when emit(event, arg) has returned, the calls it made are those of
\* the subscriptions the event had when emit started, one call each, in the
\* order of subscription, with the argument; no other function was called
C27_EmitDelivers ==
    (last.op = "emit" /\ last.result = "returned") =>
        globals.invoked = [i \in 1..Len(prev.events[last.arg[1]]) |->
                              [serial |-> prev.events[last.arg[1]][i].serial,
                               arg |-> last.arg[2]]]

\* an emit has returned that called two functions or more, one of which
\* removed a subscription of the event while emit was under way; the other
\* event has subscribers too
C27_Witness ==
    /\ last.op = "emit"
    /\ last.result = "returned"
    /\ Len(globals.invoked) >= 2
    /\ Len(globals.events[last.arg[1]]) < Len(prev.events[last.arg[1]])
    /\ \E e \in EmitterEvents : e # last.arg[1] /\ prev.events[e] # <<>>

\* C28: invoking a function on() has returned raises no error and removes
\* the subscription that on() call made, if it is still there, and nothing
\* else
C28_HandleRemovesOne ==
    last.op = "unsubscribe" =>
        /\ last.result = "returned"
        /\ globals.events =
               [prev.events EXCEPT ![prev.handles[last.arg].event] =
                                       WithoutSerial(@, prev.handles[last.arg].serial, 1)]

----------------------------------------------------------------------------
(* The two CharacterFactory classes: the one of characterFactory.js         *)
(* (createCharacter above) and the one at the end of character.js           *)

\* characters created per run
MaxCreations == 3

\* stats.field || default of the Character constructor
Given(stats, field, default) ==
    IF field \in DOMAIN stats /\ stats[field] # 0 THEN stats[field] ELSE default

\* new Character(type, stats) for stats that name some of the fields, or none
NewCharacter(type, stats) ==
    [Character(type,
               [health |-> Given(stats, "health", PLAYER_BASE_HEALTH * 100),
                maxHealth |-> Given(stats, "maxHealth", PLAYER_BASE_HEALTH * 100),
                damage |-> Given(stats, "damage", PLAYER_BASE_DAMAGE * 100),
                attackSpeed |-> Given(stats, "attackSpeed", PLAYER_BASE_ATTACK_SPEED * 100),
                attackRange |-> Given(stats, "attackRange", PLAYER_BASE_ATTACK_RANGE * 100),
                speed |-> Given(stats, "speed", PLAYER_SPEED * 100),
                size |-> Given(stats, "size", PLAYER_SIZE * 100)])
        EXCEPT !.acceleration = Given(stats, "acceleration", 800),
               !.deceleration = Given(stats, "deceleration", 1200)]

\* CharacterFactory.createCharacter(type) of character.js
createCharacterOfCharacterJs(type) ==
    CASE type = "warrior" ->
            NewCharacter(type, [health |-> PLAYER_BASE_HEALTH * 120,
                                maxHealth |-> PLAYER_BASE_HEALTH * 120,
                                damage |-> PLAYER_BASE_DAMAGE * 120,
                                attackSpeed |-> PLAYER_BASE_ATTACK_SPEED * 80,
                                attackRange |-> PLAYER_BASE_ATTACK_RANGE * 80,
                                acceleration |-> 1000,
                                deceleration |-> 800])
      [] type = "mage" ->
            NewCharacter(type, [health |-> PLAYER_BASE_HEALTH * 80,
                                maxHealth |-> PLAYER_BASE_HEALTH * 80,
                                damage |-> PLAYER_BASE_DAMAGE * 150,
                                attackSpeed |-> PLAYER_BASE_ATTACK_SPEED * 70,
                                attackRange |-> PLAYER_BASE_ATTACK_RANGE * 150,
                                acceleration |-> 700,
                                deceleration |-> 1400])
      [] type = "ranger" ->
            NewCharacter(type, [health |-> PLAYER_BASE_HEALTH * 90,
                                maxHealth |-> PLAYER_BASE_HEALTH * 90,
                                damage |-> PLAYER_BASE_DAMAGE * 90,
                                attackSpeed |-> PLAYER_BASE_ATTACK_SPEED * 150,
                                attackRange |-> PLAYER_BASE_ATTACK_RANGE * 120,
                                acceleration |-> 1200,
                                deceleration |-> 1200])
      [] OTHER -> NewCharacter("warrior", <<>>)

\* the types asked of the factories: the three of CHARACTER_TYPES and others
AskedTypes == CharacterTypes \cup {"rogue", "Warrior", "", "undefined"}

Factories == {"characterFactory.js", "character.js"}

\* createCharacter(type) of the given file's CharacterFactory
createCharacterOf(file, type) ==
    IF file = "character.js" THEN createCharacterOfCharacterJs(type)
    ELSE createCharacter(type)

CreationInit ==
    /\ player = createCharacter("warrior")
    /\ enemies = <<>>
    /\ game = NoGame
    /\ keys = {}
    /\ now = 0
    /\ emitted = NoEvents
    /\ globals = [declared |-> FALSE, ENEMY_XP_VALUE |-> 0, checkCollision |-> "part_008"]
    /\ last = [op |-> "new", arg |-> <<"characterFactory.js", "warrior">>,
               result |-> "returned", steps |-> 0]
    /\ prev = Snapshot

\* CharacterFactory.createCharacter(type)
CreateCharacter ==
    \E file \in Factories, type \in AskedTypes :
        /\ last.steps < MaxCreations
        /\ Becomes([Here EXCEPT !.player = createCharacterOf(file, type)],
                   "createCharacter", <<file, type>>, "returned")
        /\ UNCHANGED <<keys, now, globals>>

CreationNext == CreateCharacter

SpecCreation == CreationInit /\ [][CreationNext]_vars

\* the stats of character p
Stats(p) ==
    <<p.health, p.maxHealth, p.damage, p.attackSpeed, p.attackRange, p.speed, p.size,
      p.acceleration, p.deceleration>>

\* C29: createCharacter of a type other than warrior, mage and ranger returns
\* a character of type warrior with the stats createCharacter('warrior') of
\* the same factory gives
C29_UnknownIsWarrior ==
    (last.op = "createCharacter" /\ last.arg[2] \notin CharacterTypes) =>
        /\ last.result = "returned"
        /\ player.type = "warrior"
        /\ Stats(player) = Stats(createCharacterOf(last.arg[1], "warrior"))

----------------------------------------------------------------------------
(* Level-ups of the player's passives (src/src/js/abilities/ability.js)    *)

MaxPassiveSteps == 3

\* passive.lastAppliedTo: no constructor and no apply assigns the property,
\* so the read gives undefined
lastAppliedTo(ability) == FALSE

\* StatBoostPassive.levelUp() of the player's k-th passive
PassiveLevelUp(w, k) ==
    LET a == w.player.passives[k]
        a1 == [a EXCEPT !.level = @ + 1]
        w1 == Emit([w EXCEPT !.player.passives[k] = a1], "ability:levelUp")
    IN  IF lastAppliedTo(a1) THEN PassiveApply(w1, a1) ELSE w1

PassiveInit ==
    /\ player \in {createCharacter(type) : type \in CharacterTypes}
    /\ enemies = <<>>
    /\ game = NoGame
    /\ keys = {}
    /\ now = 0
    /\ emitted = NoEvents
    /\ globals = [declared |-> FALSE, ENEMY_XP_VALUE |-> 0, checkCollision |-> "part_008"]
    /\ last = [op |-> "new", arg |-> 0, result |-> "none", steps |-> 0]
    /\ prev = Snapshot

\* player.addAbility(AbilityFactory.createStatBoost(statType))
PassiveAdd ==
    \E statType \in StatTypes :
        /\ last.steps < MaxPassiveSteps
        /\ Becomes(addAbility(Here, createStatBoost(statType)), "addAbility", 0, "none")
        /\ UNCHANGED <<keys, now, globals>>

\* player.passives[k].levelUp()
PassiveLevelUpOp ==
    \E k \in 1..Len(player.passives) :
        /\ last.steps < MaxPassiveSteps
        /\ Becomes(PassiveLevelUp(Here, k), "passive.levelUp", k, "none")
        /\ UNCHANGED <<keys, now, globals>>

PassiveNext == PassiveAdd \/ PassiveLevelUpOp

SpecPassive == PassiveInit /\ [][PassiveNext]_vars

\* the stat of character p a passive of type statType boosts
StatOf(p, statType) ==
    CASE statType = "maxHealth" -> p.maxHealth
      [] statType = "damage" -> p.damage
      [] statType = "attackSpeed" -> p.attackSpeed
      [] statType = "attackRange" -> p.attackRange
      [] statType = "speed" -> p.speed

\* C30: when a StatBoostPassive that was applied to the player levels up, its
\* modifier is applied again to the named stat of the player with the new
\* level, so the stat changes on the level-up
C30_LevelUpReapplies ==
    last.op = "passive.levelUp" =>
        LET a == player.passives[last.arg]
        IN  /\ StatOf(player, a.statType) =
                   Pct(StatOf(prev.player, a.statType), 100 + a.boostValue * a.level)
            /\ StatOf(player, a.statType) # StatOf(prev.player, a.statType)

----------------------------------------------------------------------------
(* The order of the steps of Game.update (src/src/js/game.js), observed in  *)
(* the frames of the hunt: the first frame of a game spawns an enemy, and  *)
(* the player's attack kills the wounded enemy within its reach.            *)

\* the enemies the last step has pushed on game.enemies
SpawnedNow == (Len(prev.enemies) + 1)..Len(enemies)

\* the enemies that were alive before the last step and are dead after it
KilledNow ==
    {i \in 1..Len(prev.enemies) : prev.enemies[i].isAlive /\ ~enemies[i].isAlive}

\* enemy e as createRegularEnemy has built it
AsCreated(e) ==
    CHOOSE c \in {createRegularEnemy(e.wave, e.x, e.y, rand) : rand \in Rands} :
        c.type = e.type

\* C31: in a frame whose update ran to its end, the enemy the wave step has
\* spawned was updated (its path timer ran) and was not attacked by the player,
\* whose update came before the spawn; an enemy the player has killed in the
\* frame was not updated afterwards and has not attacked; and a player that is
\* dead after the frame has been seen by the game-over check
C31_UpdateOrder ==
    Updated =>
        /\ \A i \in SpawnedNow :
               /\ enemies[i].pathUpdateTime > 0
               /\ enemies[i].health = AsCreated(enemies[i]).health
        /\ \A i \in KilledNow :
               /\ enemies[i].attacksWhileDead = 0
               /\ enemies[i].x = prev.enemies[i].x
               /\ enemies[i].y = prev.enemies[i].y
               /\ enemies[i].pathUpdateTime = prev.enemies[i].pathUpdateTime
        /\ ~player.isAlive => game.state = "gameOver"

\* a frame has run its update to the end, spawned an enemy and seen the
\* player kill another
C31_Witness ==
    /\ Updated
    /\ SpawnedNow # {}
    /\ KilledNow # {}

----------------------------------------------------------------------------
(* Level-ups in the game loop: a long game, in a page whose scripts declare *)
(* ENEMY_XP_VALUE, seen from the start of a wave.  The player has reached   *)
(* level 2 and answered its upgrade panel; one to three wounded enemies of  *)
(* the wave stand within its reach.  In wave 121 a kill is worth 250 points *)
(* of experience, a level at levels 2 and 3.                                *)

\* the waves the runs of the level harness start in
LevelWaves == {1, 121}

\* every enemy of w from i on is wounded
RECURSIVE AllWounded(_, _)
AllWounded(w, i) == IF i > Len(w.enemies) THEN w ELSE AllWounded(Wounded(w, i), i + 1)

LevelInit ==
    /\ \E type \in CharacterTypes, wave \in LevelWaves, n \in 1..3, first \in Upgrades :
           \E g \in {[declared |-> TRUE, ENEMY_XP_VALUE |-> 10, checkCollision |-> "part_008"]} :
               \E w \in {startWave(chooseUpgrade(LevelledUp(startGame(type)), first), wave)} :
                   \E v \in {[w EXCEPT !.enemies =
                                [i \in 1..n |-> EnemyNear(w.player, wave, LoopOffsets[i], 10, g)]]} :
                       \E u \in {AllWounded(v, 1)} :
                           /\ globals = g
                           /\ player = u.player
                           /\ enemies = u.enemies
                           /\ game = u.game
                           /\ emitted = u.emitted
    /\ keys = {}
    /\ now = 10000
    /\ last = [op |-> "startWave", arg |-> 0, result |-> "none", steps |-> 0]
    /\ prev = Snapshot

LevelNext == LoopFrame \/ TogglePause \/ ChooseUpgrade

SpecLevel == LevelInit /\ [][LevelNext]_vars

\* the wave and spawn timers after a step are those updateWave leaves after
\* dt ms, the wave not ending
WaveStepped(dt) ==
    /\ game'.waveTimer = game.waveTimer - dt
    /\ IF game.enemySpawnTimer - dt > 0
       THEN /\ game'.enemySpawnTimer = game.enemySpawnTimer - dt
            /\ Len(enemies') = Len(enemies)
       ELSE /\ game'.enemySpawnTimer = 100000 \div game.enemySpawnRate
            /\ Len(enemies') = Len(enemies) + 1

\* the path timer of every enemy that is alive after the step has run
EnemiesStepped(dt) ==
    \A i \in 1..Len(enemies') :
        enemies'[i].isAlive =>
            enemies'[i].pathUpdateTime =
                (IF i <= Len(enemies) THEN enemies[i].pathUpdateTime ELSE 0) + dt

\* C32: a frame whose update pauses the game (the upgrade panel of a level-up
\* in the player's attack) and does not throw still runs the wave step and
\* the enemies' updates and the game-over check; the frames after it, while
\* the game is paused, run no update
C32_PauseAfterFrame ==
    [][/\ (/\ game'.frames = game.frames + 1
           /\ game.state = "playing"
           /\ ~game.isPaused
           /\ game'.isPaused
           /\ game'.loops = game.loops)
              => /\ WaveStepped(deltaTime(game, now'))
                 /\ EnemiesStepped(deltaTime(game, now'))
                 /\ game'.gameTime = game.gameTime + deltaTime(game, now')
                 /\ ~player'.isAlive => game'.state = "gameOver"
       /\ (game'.frames = game.frames + 1 /\ game.isPaused)
              => /\ game'.gameTime = game.gameTime
                 /\ game'.waveTimer = game.waveTimer
                 /\ enemies' = enemies]_vars

\* a frame has run to its end in which the player's attack has killed an
\* enemy and reached a level, which has opened the panel and paused the game,
\* and in which the wave step has then spawned an enemy
C32_Witness ==
    /\ Updated
    /\ game.isPaused
    /\ game.panelsShown > game.upgradesChosen
    /\ player.level > prev.player.level
    /\ KilledNow # {}
    /\ SpawnedNow # {}

\* C39: once every upgrade panel that was opened has been answered, the
\* abilities and passives added to the player are as many as the levels it
\* has gained
C39_OneUpgradePerLevel ==
    (game.state = "playing" /\ game.panelsShown = game.upgradesChosen) =>
        Len(player.abilities) + Len(player.passives) = player.level - 1

----------------------------------------------------------------------------
(* The end of a dash, in the runs of the movement harness                   *)

\* the last step was an update of a living player in which the duration of
\* the dash in progress ran out
DashExpired ==
    /\ last.op = "update"
    /\ prev.player.isAlive
    /\ prev.player.isDashing
    /\ prev.player.dashDuration - last.arg <= 0

\* what the friction of updateMovement leaves of momentum m
AfterFriction(m) ==
    IF Abs(Pct(m, 100 - PLAYER_FRICTION)) < 10 THEN 0 ELSE Pct(m, 100 - PLAYER_FRICTION)

\* C33: the update in which a dash's duration runs out leaves the player not
\* dashing, with maxSpeed back at stats.speed and with the momentum
\* dashDirection x PLAYER_MOMENTUM_FACTOR, on which the movement step of the
\* same update has applied its friction once; it emits player:dashEnd once,
\* and no other step emits it
C33_DashEnds ==
    /\ DashExpired =>
           /\ ~player.isDashing
           /\ player.maxSpeed = player.speed
           /\ player.momentumX =
                  AfterFriction(Pct(prev.player.dashDirectionX, PLAYER_MOMENTUM_FACTOR))
           /\ player.momentumY =
                  AfterFriction(Pct(prev.player.dashDirectionY, PLAYER_MOMENTUM_FACTOR))
           /\ emitted["player:dashEnd"] = prev.emitted["player:dashEnd"] + 1
    /\ ~DashExpired => emitted["player:dashEnd"] = prev.emitted["player:dashEnd"]
    /\ emitted["player:dashEnd"] + (IF player.isDashing THEN 1 ELSE 0)
           = emitted["player:dashStart"]

\* a dash has run out in an update
C33_Witness ==
    /\ DashExpired
    /\ emitted["player:dashStart"] = 1
    /\ player.momentumX # 0 \/ player.momentumY # 0

----------------------------------------------------------------------------
(* The player at the edge of the world: it has walked to the right-hand     *)
(* wall, or into the top left corner, and stopped there, on the limit of    *)
(* the clamp or 1 px short of it; then setMovement, dash and update as in   *)
(* the movement harness.                                                    *)

\* where the player stands: the wall it faces (as a direction) and its
\* distance from the limit, in hundredths of a pixel
WallSides == {<<1, 0>>, <<-1, -1>>}

WallGaps == {0, 100}

\* character p standing gap short of the limit on the side it faces
AtWall(p, side, gap) ==
    LET reach == worldSize \div 2 - p.size \div 2 - gap
        facing == setMovement(p, side[1], side[2])
    IN  [p EXCEPT !.x = IF side[1] = 0 THEN @ ELSE side[1] * reach,
                  !.y = IF side[2] = 0 THEN @ ELSE side[2] * reach,
                  !.directionX = facing.targetVelocityX,
                  !.directionY = facing.targetVelocityY]

WallInit ==
    /\ player \in {AtWall(createCharacter(t), side, gap) :
                       t \in CharacterTypes, side \in WallSides, gap \in WallGaps}
    /\ enemies = <<>>
    /\ game = NoGame
    /\ keys = {}
    /\ now = 0
    /\ emitted = NoEvents
    /\ globals = [declared |-> FALSE, ENEMY_XP_VALUE |-> 0, checkCollision |-> "part_008"]
    /\ last = [op |-> "new", arg |-> 0, result |-> "none", steps |-> 0]
    /\ prev = Snapshot

WallNext == MoveSetMovement \/ MoveDash \/ MoveUpdate

SpecWall == WallInit /\ [][WallNext]_vars

\* the player of the last update as its movement would have left it without
\* the world bounds
Unclamped ==
    LET w == World(prev.player, prev.enemies, game, prev.emitted)
        p == IF prev.player.isDashing THEN updateDash(w, last.arg).player ELSE prev.player
    IN  Advance(Steer(p, last.arg), last.arg)

OutsideX(p) ==
    p.x - p.size \div 2 < worldBounds.minX \/ p.x + p.size \div 2 > worldBounds.maxX

OutsideY(p) ==
    p.y - p.size \div 2 < worldBounds.minY \/ p.y + p.size \div 2 > worldBounds.maxY

\* C34: after an update of the living player its circle lies within the world
\* bounds on both axes, and on an axis on which the movement of that update
\* had left them the velocity and the momentum are zero
C34_WithinBounds ==
    (last.op = "update" /\ prev.player.isAlive) =>
        /\ ~OutsideX(player)
        /\ ~OutsideY(player)
        /\ OutsideX(Unclamped) => (player.velocityX = 0 /\ player.momentumX = 0)
        /\ OutsideY(Unclamped) => (player.velocityY = 0 /\ player.momentumY = 0)

\* an update has ended a dash into the corner: the movement had left the
\* bounds on both axes with the momentum of the dash
C34_Witness ==
    /\ last.op = "update"
    /\ DashExpired
    /\ OutsideX(Unclamped)
    /\ OutsideY(Unclamped)
    /\ Unclamped.momentumX # 0

----------------------------------------------------------------------------
(* Cooldowns across a pause: a game whose first frame has just run, with    *)
(* one enemy of wave 1 within the player's reach, which the player has      *)
(* attacked in that frame.  While the game runs the animation frames are    *)
(* 0.1 s apart; while it is paused they are 0.1 s or 1.5 s apart.           *)

\* time between two animation frames while the game is paused, in ms
PauseGaps == {100, 1500}

PauseInit ==
    /\ \E type \in CharacterTypes :
           \E g \in {[declared |-> FALSE, ENEMY_XP_VALUE |-> 0, checkCollision |-> "part_008"]} :
               \E w \in {startGame(type)} :
                   \E v \in {[w EXCEPT !.enemies =
                                <<EnemyNear(w.player, 1, LoopOffsets[1], 10, g)>>]} :
                       \E u \in {gameLoop(v, 10000, {}, <<1000, 0>>, 10, g)} :
                           /\ globals = g
                           /\ player = u.player
                           /\ enemies = u.enemies
                           /\ game = u.game
                           /\ emitted = u.emitted
    /\ keys = {}
    /\ now = 10000
    /\ last = [op |-> "gameLoop", arg |-> 0, result |-> "none", steps |-> 0]
    /\ prev = Snapshot

\* one animation frame, gap ms after the last one; an enemy that is spawned
\* appears to the right of the player, and Math.random() returns 0.1
PauseFrame ==
    \E gap \in IF game.isPaused THEN PauseGaps ELSE {100} :
        /\ game.loops > 0
        /\ game.frames < MaxFrames
        /\ Shows(gameLoop(Here, now + gap, keys, <<1000, 0>>, 10, globals))
        /\ now' = now + gap
        /\ prev' = Snapshot
        /\ last' = [last EXCEPT !.op = "gameLoop", !.arg = gap, !.result = "none"]
        /\ UNCHANGED <<keys, globals>>

PauseNext == PauseFrame \/ TogglePause

SpecPause == PauseInit /\ [][PauseNext]_vars

\* the cooldown of the player's attack, 1000 / attackSpeed ms
attackCooldown(p) == 100000 \div p.attackSpeed

\* C35: the time the game is paused does not count for the cooldown of the
\* player's attack: the second attack of a run comes no earlier than one
\* cooldown of unpaused play after the first, which the first update made
\* (at game time targetFrameTime)
C35_PauseStopsCooldown ==
    emitted["player:attack"] >= 2 =>
        game.gameTime - targetFrameTime >= attackCooldown(player)

----------------------------------------------------------------------------
(* The dash key in the runs of the loop harness: frames, the pause button,  *)
(* the enemies' attacks, and the space bar                                  *)

\* the keydown handler of Game.init for the space bar: game.player exists
\* from the first startGame on
keydownSpace(w) == dash(w).w

DashKey ==
    /\ last.steps < MaxClicks
    /\ Becomes(keydownSpace(Here), "keydown", 0, Bool(dash(Here).result))
    /\ keys' = keys \cup {" "}
    /\ UNCHANGED <<now, globals>>

KeyNext == LoopFrame \/ TogglePause \/ EnemiesAttack \/ DashKey

SpecKey == LoopInit /\ [][KeyNext]_vars

\* what a dash changes of the player
DashState(p) ==
    <<p.isDashing, p.dashDuration, p.dashCooldown, p.maxSpeed, p.dashDirectionX,
      p.dashDirectionY>>

\* C36: a press of the dash key while the game is paused or over, or while
\* the player is dead, leaves the player's dash state as it was and emits no
\* player:dashStart
C36_DashKeyIgnored ==
    (last.op = "keydown"
        /\ (game.isPaused \/ game.state # "playing" \/ ~prev.player.isAlive)) =>
        /\ DashState(player) = DashState(prev.player)
        /\ emitted["player:dashStart"] = prev.emitted["player:dashStart"]

----------------------------------------------------------------------------
(* Dashes to their end: the game runs unpaused in the page with the         *)
(* checkCollision of part_008, one frame every 0.1 s, for as long as the    *)
(* run is observed; the space bar is pressed and the enemies attack at any  *)
(* time between two frames.                                                 *)

DashInit ==
    /\ \E type \in CharacterTypes, n \in {1, 3}, rand \in {10, 90} :
           \E g \in {[declared |-> FALSE, ENEMY_XP_VALUE |-> 0, checkCollision |-> "part_008"]} :
               \E w \in {startWave(startGame(type), 19)} :
                   \E v \in {[w EXCEPT !.enemies =
                                [i \in 1..n |-> EnemyNear(w.player, 19, LoopOffsets[i], rand, g)]]} :
                       /\ globals = g
                       /\ player = v.player
                       /\ enemies = v.enemies
                       /\ game = v.game
                       /\ emitted = v.emitted
    /\ keys = {}
    /\ now = 10000
    /\ last = [op |-> "startWave", arg |-> 0, result |-> "none", steps |-> 0]
    /\ prev = Snapshot

DashNext == LoopFrame \/ DashKey \/ EnemiesAttack

\* a gameLoop callback is waiting for its animation frame, in a run that is
\* still observed
FrameWaiting == game.loops > 0 /\ game.frames < MaxFrames

\* what a LoopFrame step does to the clock: the waiting callback is called,
\* 100 ms after the last one
FrameGranted == FrameWaiting /\ now' = now + 100

\* requestAnimationFrame: no callback waits for ever, the browser calls it.
\* Among the steps of DashNext the clock moves in the LoopFrame steps alone.
SpecDash == DashInit /\ [][DashNext]_vars /\ WF_now(FrameGranted)

\* a dash has started and not ended
DashPending == emitted["player:dashStart"] > emitted["player:dashEnd"]

\* the run was observed to its last frame, and the game goes on: the next
\* frame would still call update
StillPlaying ==
    /\ game.frames >= MaxFrames
    /\ game.loops > 0
    /\ game.state = "playing"
    /\ ~game.isPaused

\* C37: while frames keep being processed, a dash that has started ends (its
\* player:dashEnd is emitted), also when the player dies or the game is over
\* during the dash
C37_DashEventuallyEnds == DashPending ~> (~DashPending \/ StillPlaying)

----------------------------------------------------------------------------
(* startGame on a Game that has already run (src/src/js/game.js:166-197)   *)

\* the run state that new Game() followed by startGame gives
InitialRun(g) ==
    <<g.state, g.isPaused, g.projectiles, g.areas, g.gameTime, g.currentWave,
      g.waveTimer, g.enemySpawnTimer, g.enemySpawnRate, g.wavesCompleted,
      g.enemiesDefeated, g.levelReached>>

\* C38: after startGame the enemy, projectile and area lists are empty, the
\* wave is 1, the wave timer is WAVE_DURATION, and the spawn timer and the
\* stats have the values of a first run, whatever happened before
C38_StartGameResets ==
    last.op = "startGame" =>
        /\ enemies = <<>>
        /\ InitialRun(game) = InitialRun(startGame(player.type).game)

----------------------------------------------------------------------------
(* The wave statistics and the spawn rate along a run of updateWave calls  *)
(* (src/src/js/game.js:203-212 and 303-320)                                *)

\* stats.wavesCompleted and enemySpawnRate are those of the current wave
WaveStats ==
    game.state = "playing" =>
        /\ game.wavesCompleted = game.currentWave - 1
        /\ game.enemySpawnRate =
               ENEMY_SPAWN_RATE * (100 + (game.currentWave - 1) * ENEMY_SPAWN_INCREASE_RATE)

\* a step that raises the wave number raises the spawn rate
RateGrows ==
    game'.currentWave > game.currentWave => game'.enemySpawnRate > game.enemySpawnRate

\* C40: after every update of a playing game, stats.wavesCompleted is
\* currentWave - 1 and enemySpawnRate is ENEMY_SPAWN_RATE x (1 + (currentWave
\* - 1) x ENEMY_SPAWN_INCREASE_RATE), and the spawn rate grows strictly with
\* the wave number
C40_WaveStats == []WaveStats /\ [][RateGrows]_vars

\* an update has ended the second wave or a later one of a playing game
C40_Witness ==
    /\ last.op = "updateWave"
    /\ game.state = "playing"
    /\ WavesStarted = 1
    /\ game.currentWave >= 3

====
